---- MODULE Spec2Model ----
(***************************************************************************)
(* configly core: SchemaResolver, BlockGenerator, ConfigLoader and         *)
(* ConfigGenerator as operators over JSON values, and the builder session  *)
(* that applies them to one workspace.                                     *)
(*                                                                         *)
(* Representation of JSON values.  A key that is absent and a key whose    *)
(* value is undefined are one representation (JSON.parse(JSON.stringify))  *)
(* makes them one); an optional keyword is a sequence of length 0 or 1.    *)
(* Object-valued keywords whose key order the code observes (properties,   *)
(* definitions) are sequences of entries in insertion order.               *)
(***************************************************************************)
EXTENDS Integers, Sequences, FiniteSets, TLC

VARIABLES schema, maxDepth, resolved, resolvedAgain, gen, graph, loaded,
          extracted, selected, builder, host, call

vars == <<schema, maxDepth, resolved, resolvedAgain, gen, graph, loaded,
          extracted, selected, builder, host, call>>

(***************************************************************************)
(* Bounds                                                                  *)
(***************************************************************************)
\* recursion budget of one resolve call tree; a result "diverged" means the
\* recursion went deeper than any finite schema of the model needs
ResolveFuel == 24

(***************************************************************************)
(* Optional values and sequences                                           *)
(***************************************************************************)
Undef == "undefined"
None == <<>>
Some(x) == <<x>>
IsSome(o) == Len(o) = 1
Get(o) == o[1]

Range(seq) == {seq[i] : i \in 1..Len(seq)}

RECURSIVE Dedupe(_)
\* Array.from(new Set(seq)): first occurrences, in order
Dedupe(seq) ==
  IF seq = <<>> THEN <<>>
  ELSE LET init == Dedupe(SubSeq(seq, 1, Len(seq) - 1))
           last == seq[Len(seq)]
       IN IF last \in Range(init) THEN init ELSE Append(init, last)

(***************************************************************************)
(* Configuration values (ConfigObject and its parts)                       *)
(***************************************************************************)
Str(s) == [k |-> "str", s |-> s]
Num(n) == [k |-> "num", n |-> n]
Bool(b) == [k |-> "bool", b |-> b]
Arr(a) == [k |-> "arr", a |-> a]
Obj(o) == [k |-> "obj", o |-> o]
Null == [k |-> "null"]
Undefined == [k |-> "undefined"]
EmptyObj == Obj([n \in {} |-> Undefined])

(***************************************************************************)
(* JSONSchema (types/index.ts).  title is a sequence of words.             *)
(***************************************************************************)
NoItems == [kind |-> "none"]
ItemsOne(s) == [kind |-> "one", s |-> s]
ItemsTuple(ss) == [kind |-> "tuple", ss |-> ss]
NoAddl == [kind |-> "none"]
AddlBool(b) == [kind |-> "bool", b |-> b]
AddlSchema(s) == [kind |-> "schema", s |-> s]

Entry(n, s) == [name |-> n, schema |-> s]

JSONSchema ==
  [ref |-> Undef, type |-> Undef, title |-> None, properties |-> None,
   required |-> None, items |-> NoItems, additionalProperties |-> NoAddl,
   allOf |-> None, oneOf |-> None, anyOf |-> None, const |-> None,
   enum |-> None, default |-> None, definitions |-> None]

Names(entries) == {entries[i].name : i \in 1..Len(entries)}
Lookup(entries, n) ==
  entries[CHOOSE i \in 1..Len(entries) : entries[i].name = n].schema

\* schema.properties ?? {}
PropsOf(s) == IF IsSome(s.properties) THEN Get(s.properties) ELSE <<>>
\* x?.length is truthy
NonEmpty(o) == IsSome(o) /\ Len(Get(o)) > 0

(***************************************************************************)
(* SchemaResolver                                                          *)
(***************************************************************************)
Ok(s) == [ok |-> TRUE, s |-> s, err |-> "none"]
Fail(e) == [ok |-> FALSE, s |-> JSONSchema, err |-> e]
OkSeq(ss) == [ok |-> TRUE, ss |-> ss, err |-> "none"]
FailSeq(e) == [ok |-> FALSE, ss |-> <<>>, err |-> e]

\* pointer.slice(2).split('/') of the pointers that start with "#/"; every
\* other string is a pointer that does not start with "#/"
PointerSegments ==
  [p \in {"#/definitions/A", "#/definitions/B", "#/definitions/C",
          "#/definitions/Node", "#/definitions/Missing",
          "#/definitions/A/type", "#/definitions/A/type/x", "#/properties/a",
          "#/definitions",
          "#/definitions/Workload",
          "#/definitions/WorkloadCodeManagementConfig",
          "#/definitions/BaseWorkloadTicketConfig",
          "#/definitions/WorkloadTicketConfigAzure",
          "#/definitions/WorkloadTicketConfigJira",
          "#/definitions/WorkloadTicketConfig"} |->
     CASE p = "#/definitions/A" -> <<"definitions", "A">>
       [] p = "#/definitions/B" -> <<"definitions", "B">>
       [] p = "#/definitions/C" -> <<"definitions", "C">>
       [] p = "#/definitions/Node" -> <<"definitions", "Node">>
       [] p = "#/definitions/Missing" -> <<"definitions", "Missing">>
       [] p = "#/definitions/A/type" -> <<"definitions", "A", "type">>
       [] p = "#/definitions/A/type/x" -> <<"definitions", "A", "type", "x">>
       [] p = "#/properties/a" -> <<"properties", "a">>
       [] p = "#/definitions" -> <<"definitions">>
       [] p = "#/definitions/Workload" -> <<"definitions", "Workload">>
       [] p = "#/definitions/WorkloadCodeManagementConfig" ->
            <<"definitions", "WorkloadCodeManagementConfig">>
       [] p = "#/definitions/BaseWorkloadTicketConfig" ->
            <<"definitions", "BaseWorkloadTicketConfig">>
       [] p = "#/definitions/WorkloadTicketConfigAzure" ->
            <<"definitions", "WorkloadTicketConfigAzure">>
       [] p = "#/definitions/WorkloadTicketConfigJira" ->
            <<"definitions", "WorkloadTicketConfigJira">>
       [] p = "#/definitions/WorkloadTicketConfig" ->
            <<"definitions", "WorkloadTicketConfig">>]

\* what a pointer walk stands on: a schema object, a name-keyed map
\* (properties, definitions), a non-object value, or undefined
AtSchema(s) == [at |-> "schema", s |-> s]
AtMap(m) == [at |-> "map", m |-> m]
AtScalar == [at |-> "scalar"]
AtUndefined == [at |-> "undefined"]

\* current[segment]
Step(current, segment) ==
  IF current.at = "schema"
  THEN CASE segment = "definitions" ->
              IF IsSome(current.s.definitions)
              THEN AtMap(Get(current.s.definitions)) ELSE AtUndefined
         [] segment = "properties" ->
              IF IsSome(current.s.properties)
              THEN AtMap(Get(current.s.properties)) ELSE AtUndefined
         [] segment = "items" ->
              IF current.s.items.kind = "one"
              THEN AtSchema(current.s.items.s) ELSE AtUndefined
         [] segment = "type" ->
              IF current.s.type # Undef THEN AtScalar ELSE AtUndefined
         [] OTHER -> AtUndefined
  ELSE IF current.at = "map"
  THEN IF segment \in Names(current.m)
       THEN AtSchema(Lookup(current.m, segment)) ELSE AtUndefined
  ELSE AtUndefined

RECURSIVE Walk(_,_)
\* the for loop of resolvePointer; "invalid" is the throw inside the loop
Walk(current, segments) ==
  IF segments = <<>> THEN current
  ELSE IF current.at \in {"undefined", "scalar"} THEN [at |-> "invalid"]
  ELSE Walk(Step(current, Head(segments)), Tail(segments))

AnyPointerResolves(root, pointer) == Ok(JSONSchema)
resolvePointer(root, pointer) ==
  IF pointer \notin DOMAIN PointerSegments THEN Fail("pointer")
  ELSE LET current == Walk(AtSchema(root), PointerSegments[pointer])
       IN CASE current.at = "schema" -> Ok(current.s)
            \* a name-keyed map is an object too: it is returned and read as
            \* a schema; none of its keys is a keyword the code looks at
            [] current.at = "map" -> Ok(JSONSchema)
            [] OTHER -> Fail("pointer")

RECURSIVE MergeEntries(_,_)
\* a spread in the opposite order: a shared key keeps the value of base
MergeEntriesBaseWins(base, extension) ==
  base \o SelectSeq(extension, LAMBDA e : e.name \notin Names(base))
\* { ...base, ...extension } of two name-keyed maps: the keys of base in
\* their order, a shared key with the value of extension, then the new keys
\* of extension in their order
MergeEntries(base, extension) ==
  IF extension = <<>> THEN base
  ELSE LET e == Head(extension)
           merged ==
             IF e.name \in Names(base)
             THEN [i \in 1..Len(base) |->
                     IF base[i].name = e.name THEN e ELSE base[i]]
             ELSE Append(base, e)
       IN MergeEntries(merged, Tail(extension))

OrEmpty(o) == IF IsSome(o) THEN Get(o) ELSE <<>>
\* extension.x ?? base.x
Later(extension, base) == IF IsSome(extension) THEN extension ELSE base

mergeSchemas(base, extension) ==
  [ref |-> IF extension.ref # Undef THEN extension.ref ELSE base.ref,
   type |-> IF extension.type # Undef THEN extension.type ELSE base.type,
   title |-> Later(extension.title, base.title),
   properties |->
     Some(MergeEntries(OrEmpty(base.properties), OrEmpty(extension.properties))),
   definitions |->
     Some(MergeEntries(OrEmpty(base.definitions), OrEmpty(extension.definitions))),
   required |->
     IF IsSome(base.required) \/ IsSome(extension.required)
     THEN Some(Dedupe(OrEmpty(base.required) \o OrEmpty(extension.required)))
     ELSE None,
   oneOf |-> Later(extension.oneOf, base.oneOf),
   anyOf |-> Later(extension.anyOf, base.anyOf),
   allOf |-> Later(extension.allOf, base.allOf),
   items |-> IF extension.items.kind # "none" THEN extension.items ELSE base.items,
   additionalProperties |->
     IF extension.additionalProperties.kind # "none"
     THEN extension.additionalProperties ELSE base.additionalProperties,
   const |-> Later(extension.const, base.const),
   enum |-> Later(extension.enum, base.enum),
   default |-> Later(extension.default, base.default)]

RECURSIVE resolve(_,_,_,_)
RECURSIVE ResolveEach(_,_,_,_)
RECURSIVE ResolveEntries(_,_,_,_)
RECURSIVE MergeAllOf(_,_,_,_,_)

\* the pointerStack.has(pointer) test of resolve
CycleCheckSkipped(pointerStack, pointer) == FALSE
ReentersPointer(pointerStack, pointer) == pointer \in pointerStack

PointerKept(pointerStack, pointer) == pointerStack
\* context.pointerStack.delete(pointer)
PointerDeleted(pointerStack, pointer) == pointerStack \ {pointer}

\* the closing "return this.resolve(merged, context)" of the $ref branch
ReturnMergedUnresolved(root, merged, pointerStack, fuel) == Ok(merged)
ResolveMerged(root, merged, pointerStack, fuel) ==
  resolve(root, merged, pointerStack, fuel)

KeepEach(root, list, pointerStack, fuel) == OkSeq(list)
\* list.map((s) => this.resolve(s, context)), stopping at the first throw
ResolveEach(root, list, pointerStack, fuel) ==
  IF list = <<>> THEN OkSeq(<<>>)
  ELSE LET first == resolve(root, Head(list), pointerStack, fuel)
       IN IF ~first.ok THEN FailSeq(first.err)
          ELSE LET rest == ResolveEach(root, Tail(list), pointerStack, fuel)
               IN IF ~rest.ok THEN rest ELSE OkSeq(<<first.s>> \o rest.ss)

\* Object.entries(properties).map(([key, value]) => [key, resolve(value)])
ResolveEntries(root, entries, pointerStack, fuel) ==
  IF entries = <<>> THEN OkSeq(<<>>)
  ELSE LET first == resolve(root, Head(entries).schema, pointerStack, fuel)
       IN IF ~first.ok THEN FailSeq(first.err)
          ELSE LET rest == ResolveEntries(root, Tail(entries), pointerStack, fuel)
               IN IF ~rest.ok THEN rest
                  ELSE OkSeq(<<Entry(Head(entries).name, first.s)>> \o rest.ss)

\* the for loop of the allOf branch: merged = mergeSchemas(merged, resolved)
MergeAllOf(root, merged, subschemas, pointerStack, fuel) ==
  IF subschemas = <<>> THEN Ok(merged)
  ELSE LET r == resolve(root, Head(subschemas), pointerStack, fuel)
       IN IF ~r.ok THEN r
          ELSE MergeAllOf(root, mergeSchemas(merged, r.s), Tail(subschemas),
                          pointerStack, fuel)

\* the part of resolve after the $ref and allOf branches
ResolveChildren(root, clone, pointerStack, fuel) ==
  LET one == IF NonEmpty(clone.oneOf)
             THEN ResolveEach(root, Get(clone.oneOf), pointerStack, fuel)
             ELSE OkSeq(<<>>)
      any == IF NonEmpty(clone.anyOf)
             THEN ResolveEach(root, Get(clone.anyOf), pointerStack, fuel)
             ELSE OkSeq(<<>>)
      props == IF IsSome(clone.properties)
               THEN ResolveEntries(root, Get(clone.properties), pointerStack, fuel)
               ELSE OkSeq(<<>>)
      items == CASE clone.items.kind = "one" ->
                      LET r == resolve(root, clone.items.s, pointerStack, fuel)
                      IN IF r.ok THEN OkSeq(<<r.s>>) ELSE FailSeq(r.err)
                 [] clone.items.kind = "tuple" ->
                      ResolveEach(root, clone.items.ss, pointerStack, fuel)
                 [] OTHER -> OkSeq(<<>>)
      addl == IF clone.additionalProperties.kind = "schema"
              THEN resolve(root, clone.additionalProperties.s, pointerStack, fuel)
              ELSE Ok(JSONSchema)
  IN IF ~one.ok THEN Fail(one.err)
     ELSE IF ~any.ok THEN Fail(any.err)
     ELSE IF ~props.ok THEN Fail(props.err)
     ELSE IF ~items.ok THEN Fail(items.err)
     ELSE IF ~addl.ok THEN addl
     ELSE Ok([clone EXCEPT
            !.oneOf = IF NonEmpty(clone.oneOf) THEN Some(one.ss) ELSE @,
            !.anyOf = IF NonEmpty(clone.anyOf) THEN Some(any.ss) ELSE @,
            !.properties = IF IsSome(clone.properties) THEN Some(props.ss) ELSE @,
            !.items = CASE clone.items.kind = "one" -> ItemsOne(items.ss[1])
                        [] clone.items.kind = "tuple" -> ItemsTuple(items.ss)
                        [] OTHER -> @,
            !.additionalProperties =
               IF clone.additionalProperties.kind = "schema"
               THEN AddlSchema(addl.s) ELSE @])

\* resolve(schema, context): context.pointerStack is passed down; every
\* add is undone by the delete that follows the nested call, so a call that
\* returns leaves the set as it found it
resolve(root, clone, pointerStack, fuel) ==
  IF fuel = 0 THEN Fail("diverged")
  ELSE IF clone.ref # Undef
  THEN IF ReentersPointer(pointerStack, clone.ref) THEN Fail("circular")
       ELSE LET referenced == resolvePointer(root, clone.ref)
            IN IF ~referenced.ok THEN referenced
               ELSE LET resolvedRef ==
                          resolve(root, referenced.s,
                                  pointerStack \cup {clone.ref}, fuel - 1)
                    IN IF ~resolvedRef.ok THEN resolvedRef
                       ELSE ResolveMerged(root,
                              mergeSchemas(resolvedRef.s,
                                           [clone EXCEPT !.ref = Undef]),
                              PointerDeleted(pointerStack \cup {clone.ref}, clone.ref),
                              fuel - 1)
  ELSE IF NonEmpty(clone.allOf)
  THEN LET merged == MergeAllOf(root, [clone EXCEPT !.allOf = None],
                                Get(clone.allOf), pointerStack, fuel - 1)
       IN IF ~merged.ok THEN merged
          ELSE resolve(root, merged.s, pointerStack, fuel - 1)
  ELSE ResolveChildren(root, clone, pointerStack, fuel - 1)

\* resolver.resolve(schema) of a resolver constructed on root
resolveIn(root, s) == resolve(root, s, {}, ResolveFuel)

(***************************************************************************)
(* Strings.  A title is the sequence of its words; a property name, a     *)
(* block type and a field name are strings.                                *)
(***************************************************************************)
\* humanize(str) of the property names of the model: split at "_", "-" and
\* before capitals, capitalise each word
humanize(str) ==
  CASE str = "a" -> <<"A">>
    [] str = "b" -> <<"B">>
    [] str = "c" -> <<"C">>
    [] str = "x" -> <<"X">>
    [] str = "y" -> <<"Y">>
    [] str = "a_b" -> <<"A", "B">>
    [] str = "x_item" -> <<"X", "Item">>
    [] str = "kind" -> <<"Kind">>
    [] str = "items" -> <<"Items">>
    [] str = "name" -> <<"Name">>
    [] str = "child" -> <<"Child">>
    [] str = "n" -> <<"N">>
    [] str = "m" -> <<"M">>
    [] str = "d" -> <<"D">>
    [] str = "id" -> <<"Id">>
    [] str = "type" -> <<"Type">>
    [] str = "serverId" -> <<"Server", "Id">>
    [] str = "projectName" -> <<"Project", "Name">>
    [] str = "codeManagement" -> <<"Code", "Management">>
    [] str = "incidents" -> <<"Incidents">>
    [] str = "workloads" -> <<"Workloads">>
    [] str = "servers" -> <<"Servers">>
    [] str = "host" -> <<"Host">>
    [] str = "port" -> <<"Port">>
    [] str = "flag" -> <<"Flag">>
    [] str = "tags" -> <<"Tags">>
    [] str = "level" -> <<"Level">>
    [] str = "string" -> <<"String">>
    [] str = "number" -> <<"Number">>
    [] str = "integer" -> <<"Integer">>
    [] str = "boolean" -> <<"Boolean">>
    \* block names; no call of the model humanizes one
    [] OTHER -> <<str>>

\* str.toLowerCase() of a word without characters outside [A-Za-z0-9_]
toLowerCase(str) ==
  CASE str = "A" -> "a"
    [] str = "B" -> "b"
    [] str = "C" -> "c"
    [] str = "X" -> "x"
    [] str = "Y" -> "y"
    [] str = "Kind" -> "kind"
    [] str = "Items" -> "items"
    [] str = "Name" -> "name"
    [] str = "Child" -> "child"
    [] str = "N" -> "n"
    [] str = "M" -> "m"
    [] str = "D" -> "d"
    [] str = "Id" -> "id"
    [] str = "Type" -> "type"
    [] str = "Server" -> "server"
    [] str = "Project" -> "project"
    [] str = "Code" -> "code"
    [] str = "Management" -> "management"
    [] str = "Incidents" -> "incidents"
    [] str = "Workloads" -> "workloads"
    [] str = "Servers" -> "servers"
    [] str = "Host" -> "host"
    [] str = "Port" -> "port"
    [] str = "Flag" -> "flag"
    [] str = "Tags" -> "tags"
    [] str = "Level" -> "level"
    [] str = "Option" -> "option"
    [] str = "Item" -> "item"
    [] str = "serverId" -> "serverid"
    [] str = "projectName" -> "projectname"
    [] str = "codeManagement" -> "codemanagement"
    [] OTHER -> str

\* propName.toUpperCase()
toUpperCase(str) ==
  CASE str = "a" -> "A"
    [] str = "b" -> "B"
    [] str = "c" -> "C"
    [] str = "x" -> "X"
    [] str = "y" -> "Y"
    [] str = "a_b" -> "A_B"
    [] str = "x_item" -> "X_ITEM"
    [] str = "kind" -> "KIND"
    [] str = "items" -> "ITEMS"
    [] str = "name" -> "NAME"
    [] str = "child" -> "CHILD"
    [] str = "n" -> "N"
    [] str = "m" -> "M"
    [] str = "d" -> "D"
    [] str = "id" -> "ID"
    [] str = "type" -> "TYPE"
    [] str = "serverId" -> "SERVERID"
    [] str = "projectName" -> "PROJECTNAME"
    [] str = "codeManagement" -> "CODEMANAGEMENT"
    [] str = "incidents" -> "INCIDENTS"
    [] str = "workloads" -> "WORKLOADS"
    [] str = "servers" -> "SERVERS"
    [] str = "host" -> "HOST"
    [] str = "port" -> "PORT"
    [] str = "flag" -> "FLAG"
    [] str = "tags" -> "TAGS"
    [] str = "level" -> "LEVEL"

RECURSIVE JoinWords(_,_)
JoinWords(words, sep) ==
  IF words = <<>> THEN ""
  ELSE IF Len(words) = 1 THEN words[1]
  ELSE words[1] \o sep \o JoinWords(Tail(words), sep)

\* slugify(value): lower case, runs of other characters to "_", trimmed
slugify(words) ==
  LET slug == JoinWords([i \in 1..Len(words) |-> toLowerCase(words[i])], "_")
  IN IF slug # "" THEN slug ELSE "option"

\* `${index + 1}`
IndexWord(index) == ToString(index + 1)

(***************************************************************************)
(* Maps in insertion order (Map<string, V>)                                *)
(***************************************************************************)
MapHas(m, key) == \E i \in 1..Len(m) : m[i].key = key
MapGet(m, key) == m[CHOOSE i \in 1..Len(m) : m[i].key = key].value
MapSet(m, key, value) ==
  IF MapHas(m, key)
  THEN [i \in 1..Len(m) |-> IF m[i].key = key THEN [key |-> key, value |-> value] ELSE m[i]]
  ELSE Append(m, [key |-> key, value |-> value])
MapKeys(m) == {m[i].key : i \in 1..Len(m)}

(***************************************************************************)
(* BlockGenerator                                                          *)
(***************************************************************************)
rootBlockName == "config_root"

\* a place of the schema document: the steps from the root
AtProp(loc, propName) == Append(loc, [step |-> "property", name |-> propName])
AtItem(loc) == Append(loc, [step |-> "item", name |-> ""])
AtBranch(loc, index) == Append(loc, [step |-> "branch", name |-> IndexWord(index)])

\* BlockArgument; the input_dummy arguments, which carry nothing, are left out
Field(type, name, initial, options) ==
  [type |-> type, name |-> name, check |-> <<>>, initial |-> initial, options |-> options]
StatementInput(name, check) ==
  [type |-> "input_statement", name |-> name, check |-> check,
   initial |-> Undefined, options |-> <<>>]

\* String(val)
String(val) ==
  CASE val.k = "str" -> val.s
    [] val.k = "num" -> ToString(val.n)
    [] val.k = "bool" -> IF val.b THEN "true" ELSE "false"
    [] val.k = "null" -> "null"
    [] val.k = "undefined" -> "undefined"
    [] val.k = "arr" -> "[array]"
    [] OTHER -> "[object Object]"

\* x ?? fallback of an optional keyword
OrElse(o, fallback) == IF IsSome(o) THEN Get(o) ELSE fallback

\* the state of one generate() run: the maps of the generator, the
\* diagnostics written with console.warn, and calls: one record for every
\* call of generateObjectBlock and generateItemBlock, with the place of the
\* schema document it was made for
NewGenerator(root, depthLimit) ==
  [root |-> root, maxDepth |-> depthLimit, generatedBlocks |-> <<>>,
   blockTypeMap |-> <<>>, blockCategories |-> <<>>, blockSchemaMap |-> <<>>,
   variants |-> <<>>, warnings |-> <<>>, calls |-> <<>>]

Called(g, blockName, loc, depth, outcome) ==
  [g EXCEPT !.calls = Append(@, [type |-> blockName, loc |-> loc, depth |-> depth,
                                 outcome |-> outcome])]

LastConst(s) ==
  LET properties == PropsOf(s)
      withConst == {i \in 1..Len(properties) : IsSome(properties[i].schema.const)}
  IN IF withConst = {} THEN None
     ELSE LET last == CHOOSE i \in withConst : \A j \in withConst : j <= i
          IN Some([property |-> properties[last].name,
                   value |-> Get(properties[last].schema.const)])

extractDiscriminator(s) ==
  LET properties == PropsOf(s)
      withConst == {i \in 1..Len(properties) : IsSome(properties[i].schema.const)}
  IN IF withConst = {} THEN None
     ELSE LET first == CHOOSE i \in withConst : \A j \in withConst : i <= j
          IN Some([property |-> properties[first].name,
                   value |-> Get(properties[first].schema.const)])

registerVariant(g, path, blockType, s, title) ==
  LET variants == IF MapHas(g.variants, path) THEN MapGet(g.variants, path) ELSE <<>>
  IN [g EXCEPT !.variants =
        MapSet(@, path, Append(variants,
          [blockType |-> blockType, schema |-> s, title |-> title,
           discriminator |-> extractDiscriminator(s)]))]

\* the field a shared item block holds its value in
ItemValueField(s, type) ==
  IF IsSome(s.enum)
  THEN <<Field("field_dropdown", "VALUE", Undefined,
               [i \in 1..Len(Get(s.enum)) |-> String(Get(s.enum)[i])])>>
  ELSE IF type = "string"
  THEN <<Field("field_input", "VALUE", OrElse(s.default, Str("")), <<>>)>>
  ELSE IF type \in {"number", "integer"}
  THEN <<Field("field_number", "VALUE", OrElse(s.default, Num(0)), <<>>)>>
  ELSE IF type = "boolean"
  THEN <<Field("field_checkbox", "VALUE", OrElse(s.default, Bool(FALSE)), <<>>)>>
  ELSE <<>>

generateItemBlock(g, s, blockName, topLevelCategory, loc) ==
  IF MapHas(g.generatedBlocks, blockName)
  THEN Called(g, blockName, loc, 0, "memo")
  ELSE LET type == IF s.type # Undef THEN s.type ELSE "string"
           block == [type |-> blockName,
                     title |-> OrElse(s.title, humanize(type) \o <<"Item">>),
                     args0 |-> ItemValueField(s, type),
                     previousStatement |-> Some(blockName),
                     nextStatement |-> Some(blockName)]
       IN Called([g EXCEPT !.generatedBlocks = MapSet(@, blockName, block),
                           !.blockTypeMap = MapSet(@, blockName, blockName),
                           !.blockCategories =
                              IF IsSome(topLevelCategory)
                              THEN MapSet(@, blockName, Get(topLevelCategory)) ELSE @],
                 blockName, loc, 0, "generated")

RECURSIVE generateObjectBlock(_,_,_,_,_,_,_,_)
RECURSIVE generateProperties(_,_,_,_,_,_,_,_)
RECURSIVE generatePropertyInput(_,_,_,_,_,_,_)
RECURSIVE generateUnionInput(_,_,_,_,_,_,_,_)
RECURSIVE generateUnionOptions(_,_,_,_,_,_,_,_,_,_)
RECURSIVE generateArrayBlock(_,_,_,_,_,_,_)
RECURSIVE generateArrayVariants(_,_,_,_,_,_,_,_,_)

\* the title of an array item variant
ArrayVariantTitle(title, displayName, blockName, index) ==
  OrElse(title, OrElse(displayName, humanize(blockName) \o <<"Option", IndexWord(index)>>))

\* the depth test that opens generateObjectBlock
NeverTooDeep(depth, limit) == FALSE
MaxDepthExceeded(depth, limit) == depth > limit

\* the category of a block that is not the root
OwnTitleAsCategory(depth, title, topLevelCategory) == title
CategoryName(depth, title, topLevelCategory) ==
  OrElse(topLevelCategory, IF depth = 1 THEN title ELSE <<"Objects">>)

\* depth + 1: the depth of an object beneath a property, item or branch
NoDeeper(depth) == depth
Deeper(depth) == depth + 1

\* the category handed down to a property
InheritedCategoryOnly(isRoot, topLevelCategory, childDisplayName) ==
  IF isRoot THEN Some(childDisplayName) ELSE topLevelCategory
ChildTopLevelCategory(isRoot, topLevelCategory, childDisplayName) ==
  IF isRoot THEN Some(childDisplayName)
  ELSE Some(OrElse(topLevelCategory, childDisplayName))

\* displayName ?? resolvedSchema.title ?? this.humanize(blockName)
ObjectTitle(displayName, resolvedSchema, blockName) ==
  OrElse(displayName, OrElse(resolvedSchema.title, humanize(blockName)))

\* generateObjectBlock once the properties are done: the three maps are set
setObjectBlock(r, resolvedSchema, blockName, isRoot, depth, title, loc) ==
  Called([r.g EXCEPT
            !.generatedBlocks =
               MapSet(@, blockName,
                      [type |-> blockName, title |-> title, args0 |-> r.args0,
                       previousStatement |-> IF isRoot THEN None ELSE Some(blockName),
                       nextStatement |-> IF isRoot THEN None ELSE Some(blockName)]),
            !.blockTypeMap = MapSet(@, blockName, blockName),
            !.blockSchemaMap = MapSet(@, blockName, resolvedSchema)],
         blockName, loc, depth, "generated")

\* generateObjectBlock from the resolved schema on: the category, then the
\* properties
defineObjectBlock(g, resolvedSchema, blockName, isRoot, depth, displayName, topLevelCategory, loc) ==
  LET title == ObjectTitle(displayName, resolvedSchema, blockName)
      categoryName == IF isRoot THEN <<"Configuration">>
                      ELSE CategoryName(depth, title, topLevelCategory)
  IN setObjectBlock(
       generateProperties([g EXCEPT !.blockCategories = MapSet(@, blockName, categoryName)],
                          PropsOf(resolvedSchema), blockName, isRoot, depth,
                          topLevelCategory, loc, <<>>),
       resolvedSchema, blockName, isRoot, depth,
       ObjectTitle(displayName, resolvedSchema, blockName), loc)

generateObjectBlock(g, s, blockName, isRoot, depth, displayName, topLevelCategory, loc) ==
  IF MaxDepthExceeded(depth, g.maxDepth)
  THEN Called([g EXCEPT !.warnings = Append(@, <<"Max depth exceeded for block", blockName>>)],
              blockName, loc, depth, "too deep")
  ELSE IF MapHas(g.generatedBlocks, blockName)
  THEN Called(g, blockName, loc, depth, "memo")
  ELSE defineObjectBlock(g, resolveIn(g.root, s).s, blockName, isRoot, depth, displayName,
                         topLevelCategory, loc)

\* block.args0.push(input), and on to the next property
pushInput(r, properties, blockName, isRoot, depth, topLevelCategory, loc, args0) ==
  generateProperties(r.g, properties, blockName, isRoot, depth, topLevelCategory, loc,
                     args0 \o r.input)

\* the for loop over Object.entries(properties) of generateObjectBlock
generateProperties(g, properties, blockName, isRoot, depth, topLevelCategory, loc, args0) ==
  IF properties = <<>> THEN [g |-> g, args0 |-> args0]
  ELSE LET propName == Head(properties).name
           propSchema == Head(properties).schema
           childDisplayName == OrElse(propSchema.title, humanize(propName))
           childTopLevelCategory ==
             ChildTopLevelCategory(isRoot, topLevelCategory, childDisplayName)
       IN pushInput(generatePropertyInput(g, propSchema, propName,
                                          blockName \o "_" \o propName, depth,
                                          childTopLevelCategory, AtProp(loc, propName)),
                    Tail(properties), blockName, isRoot, depth, topLevelCategory, loc, args0)

\* { type: 'input_statement', name: upperName, check: arrayBlockType }
arrayInput(r, name) == [g |-> r.g, input |-> <<StatementInput(name, r.check)>>]

\* the end of generateUnionInput: null when no variant was generated
unionInput(r, name) ==
  [g |-> r.g, input |-> IF r.check = <<>> THEN <<>> ELSE <<StatementInput(name, r.check)>>]

\* generatePropertyInput from the resolved schema on
propertyInput(g, resolvedSchema, propName, fullPath, depth, topLevelCategory, loc) ==
  LET propType == resolvedSchema.type
      upperName == toUpperCase(propName)
      displayName == OrElse(resolvedSchema.title, humanize(propName))
  IN IF NonEmpty(resolvedSchema.oneOf) \/ NonEmpty(resolvedSchema.anyOf)
     THEN generateUnionInput(g,
            IF NonEmpty(resolvedSchema.oneOf) THEN Get(resolvedSchema.oneOf)
            ELSE Get(resolvedSchema.anyOf),
            propName, fullPath, depth, topLevelCategory, displayName, loc)
     ELSE IF IsSome(resolvedSchema.enum)
     THEN [g |-> g,
           input |-> <<Field("field_dropdown", upperName, Undefined,
                         [i \in 1..Len(Get(resolvedSchema.enum)) |->
                            String(Get(resolvedSchema.enum)[i])])>>]
     ELSE CASE propType = "string" ->
                 [g |-> g, input |-> <<Field("field_input", upperName,
                                         OrElse(resolvedSchema.default, Str("")), <<>>)>>]
            [] propType \in {"number", "integer"} ->
                 [g |-> g, input |-> <<Field("field_number", upperName,
                                         OrElse(resolvedSchema.default, Num(0)), <<>>)>>]
            [] propType = "boolean" ->
                 [g |-> g, input |-> <<Field("field_checkbox", upperName,
                                         OrElse(resolvedSchema.default, Bool(FALSE)), <<>>)>>]
            [] propType = "array" ->
                 arrayInput(generateArrayBlock(g, resolvedSchema, fullPath, depth,
                                               topLevelCategory, Some(displayName), loc),
                            upperName)
            [] propType = "object" ->
                 [g |-> generateObjectBlock(g, resolvedSchema, fullPath, FALSE, Deeper(depth),
                                            Some(displayName), topLevelCategory, loc),
                  input |-> <<StatementInput(upperName, <<fullPath>>)>>]
            [] OTHER -> [g |-> g, input |-> <<>>]

generatePropertyInput(g, s, propName, fullPath, depth, topLevelCategory, loc) ==
  propertyInput(g, resolveIn(g.root, s).s, propName, fullPath, depth, topLevelCategory, loc)

generateUnionInput(g, options, propName, fullPath, depth, topLevelCategory, displayName, loc) ==
  unionInput(generateUnionOptions(g, options, 0, propName, fullPath, depth,
                                  topLevelCategory, displayName, loc, <<>>),
             toUpperCase(propName))

\* one pass of options.forEach of generateUnionInput, the option resolved
unionOption(g, resolvedOption, options, index, propName, fullPath, depth, topLevelCategory, displayName, loc, variantTypes) ==
  LET variantTitle ==
        OrElse(resolvedOption.title, displayName \o <<"Option", IndexWord(index)>>)
      variantBlockType ==
        fullPath \o "_" \o (IF variantTitle # <<>> THEN slugify(variantTitle)
                            ELSE slugify(<<propName, IndexWord(index)>>))
  IN generateUnionOptions(
       registerVariant(
         generateObjectBlock(g, resolvedOption, variantBlockType, FALSE, Deeper(depth),
                             Some(variantTitle), topLevelCategory, AtBranch(loc, index)),
         fullPath, variantBlockType, resolvedOption, variantTitle),
       options, index + 1, propName, fullPath, depth, topLevelCategory, displayName, loc,
       Append(variantTypes, variantBlockType))

\* options.forEach((option, index) => ...) of generateUnionInput
generateUnionOptions(g, options, index, propName, fullPath, depth, topLevelCategory, displayName, loc, variantTypes) ==
  IF index >= Len(options) THEN [g |-> g, check |-> variantTypes]
  ELSE unionOption(g, resolveIn(g.root, options[index + 1]).s, options, index, propName,
                   fullPath, depth, topLevelCategory, displayName, loc, variantTypes)

\* the dedicated item block of an array of objects
objectItemBlock(g, resolvedItem, itemBlockType, depth, category, displayName, loc) ==
  [g |-> [generateObjectBlock(g, resolvedItem, itemBlockType, FALSE, Deeper(depth),
                              Some(OrElse(resolvedItem.title,
                                          OrElse(displayName, humanize(itemBlockType)))),
                              category, AtItem(loc))
            EXCEPT !.blockSchemaMap = MapSet(@, itemBlockType, resolvedItem)],
   check |-> <<itemBlockType>>]

\* generateArrayBlock from the resolved schema on
arrayBlock(g, resolvedSchema, blockName, depth, topLevelCategory, displayName, loc) ==
  LET itemSchema == CASE resolvedSchema.items.kind = "tuple" -> resolvedSchema.items.ss[1]
                      [] resolvedSchema.items.kind = "one" -> resolvedSchema.items.s
                      [] OTHER -> [JSONSchema EXCEPT !.type = "string"]
      inheritCategory == depth > 0
      category == IF inheritCategory THEN topLevelCategory ELSE None
      primitiveType == IF itemSchema.type # Undef THEN itemSchema.type ELSE "string"
  IN IF NonEmpty(itemSchema.oneOf) \/ NonEmpty(itemSchema.anyOf)
     THEN generateArrayVariants(g,
            IF IsSome(itemSchema.oneOf) THEN Get(itemSchema.oneOf)
            ELSE OrEmpty(itemSchema.anyOf),
            0, blockName, depth, category, displayName, AtItem(loc), <<>>)
     ELSE IF itemSchema.type = "object"
     THEN objectItemBlock(g, resolveIn(g.root, itemSchema).s, blockName \o "_item", depth,
                          category, displayName, loc)
     ELSE [g |-> generateItemBlock(g, itemSchema, primitiveType \o "_item",
                                   Some(<<"Common">>), AtItem(loc)),
           check |-> <<primitiveType \o "_item">>]

generateArrayBlock(g, s, blockName, depth, topLevelCategory, displayName, loc) ==
  arrayBlock(g, resolveIn(g.root, s).s, blockName, depth, topLevelCategory, displayName, loc)

\* one pass of variants.map of generateArrayBlock, the variant resolved
arrayVariant(g, resolvedVariant, variants, index, blockName, depth, category, displayName, loc, variantTypes) ==
  LET variantTitle ==
        ArrayVariantTitle(resolvedVariant.title, displayName, blockName, index)
      variantBlockType == blockName \o "_" \o slugify(variantTitle)
  IN generateArrayVariants(
       registerVariant(
         generateObjectBlock(g, resolvedVariant, variantBlockType, FALSE, Deeper(depth),
                             Some(variantTitle), category, AtBranch(loc, index)),
         blockName, variantBlockType, resolvedVariant, variantTitle),
       variants, index + 1, blockName, depth, category, displayName, loc,
       Append(variantTypes, variantBlockType))

\* variants.map((variant, index) => ...) of generateArrayBlock
generateArrayVariants(g, variants, index, blockName, depth, category, displayName, loc, variantTypes) ==
  IF index >= Len(variants) THEN [g |-> g, check |-> variantTypes]
  ELSE arrayVariant(g, resolveIn(g.root, variants[index + 1]).s, variants, index, blockName,
                    depth, category, displayName, loc, variantTypes)

\* categorizeBlocks: every block of the run has an entry in blockCategories
\* (generateObjectBlock and generateItemBlock both set one), so the name
\* tests that follow the lookup are never reached
categorizeBlocks(g) ==
  LET names == <<<<"Configuration">>>> \o
        SelectSeq(Dedupe([i \in 1..Len(g.blockCategories) |-> g.blockCategories[i].value]),
                  LAMBDA c : c # <<"Configuration">>)
      blocks == [i \in 1..Len(g.generatedBlocks) |-> g.generatedBlocks[i].key]
  IN [i \in 1..Len(names) |->
        [name |-> names[i],
         contents |-> SelectSeq(blocks,
            LAMBDA t : MapHas(g.blockCategories, t) /\ MapGet(g.blockCategories, t) = names[i])]]

generateToolbox(g) ==
  SelectSeq(categorizeBlocks(g), LAMBDA c : Len(c.contents) > 0)

GenerationFailed(e) ==
  [ok |-> FALSE, err |-> e, blocks |-> <<>>, toolbox |-> <<>>, rootBlockType |-> "",
   blockTypeMap |-> <<>>, blockSchemaMap |-> <<>>, variants |-> <<>>,
   blockCategories |-> <<>>, warnings |-> <<>>, calls |-> <<>>]

\* the GenerationResult, with the categories and the log of the run
GenerationResult(g) ==
  [ok |-> TRUE, err |-> "none",
   blocks |-> [i \in 1..Len(g.generatedBlocks) |-> g.generatedBlocks[i].value],
   toolbox |-> generateToolbox(g),
   rootBlockType |-> rootBlockName,
   blockTypeMap |-> g.blockTypeMap,
   blockSchemaMap |-> g.blockSchemaMap,
   variants |-> g.variants,
   blockCategories |-> g.blockCategories,
   warnings |-> g.warnings,
   calls |-> g.calls]

\* resolvedRoot.type === 'object' || !resolvedRoot.type
AnyShape(s) == TRUE
ObjectShaped(s) == s.type = "object" \/ s.type = Undef

\* generate() once the root is resolved, or the resolver has thrown
generateFrom(root, depthLimit, resolvedRoot) ==
  IF ~resolvedRoot.ok THEN GenerationFailed(resolvedRoot.err)
  ELSE IF ObjectShaped(resolvedRoot.s)
  THEN GenerationResult(
         generateObjectBlock(NewGenerator(root, depthLimit), resolvedRoot.s, rootBlockName,
                             TRUE, 0,
                             Some(OrElse(resolvedRoot.s.title, <<"Configuration">>)),
                             Some(<<"Configuration">>), <<>>))
  ELSE GenerationFailed("shape")

\* new BlockGenerator(root, {maxDepth: depthLimit}).generate()
generate(root, depthLimit) == generateFrom(root, depthLimit, resolveIn(root, root))

(***************************************************************************)
(* The workspace (Blockly.Workspace), as far as the loader and the         *)
(* extractor use it: blocks addressed by their index, fields with raw      *)
(* values, statement inputs and next links holding a block index or 0.     *)
(***************************************************************************)
EmptyWorkspace == [blocks |-> <<>>, failed |-> "none", warnings |-> <<>>]

Definition(defs, type) ==
  defs[CHOOSE i \in 1..Len(defs) : defs[i].type = type]
IsDefined(defs, type) == \E i \in 1..Len(defs) : defs[i].type = type

\* the raw value a field shows when the block is created
InitialValue(arg) ==
  CASE arg.type = "field_checkbox" ->
         Str(IF arg.initial = Bool(TRUE) THEN "TRUE" ELSE "FALSE")
    [] arg.type = "field_dropdown" ->
         IF arg.options = <<>> THEN Null ELSE Str(arg.options[1])
    [] OTHER -> arg.initial

RECURSIVE InstanceFields(_)
InstanceFields(args0) ==
  IF args0 = <<>> THEN <<>>
  ELSE IF Head(args0).type = "input_statement" THEN InstanceFields(Tail(args0))
  ELSE MapSet(InstanceFields(Tail(args0)), Head(args0).name,
              [type |-> Head(args0).type, options |-> Head(args0).options,
               raw |-> InitialValue(Head(args0))])

RECURSIVE InstanceInputs(_)
InstanceInputs(args0) ==
  IF args0 = <<>> THEN <<>>
  ELSE IF Head(args0).type # "input_statement" THEN InstanceInputs(Tail(args0))
  ELSE MapSet(InstanceInputs(Tail(args0)), Head(args0).name,
              [check |-> Head(args0).check, target |-> 0])

\* workspace.newBlock(type); a type without a registered definition throws
newBlock(w, defs, type) ==
  IF w.failed # "none" THEN w
  ELSE IF ~IsDefined(defs, type) THEN [w EXCEPT !.failed = "invalid block definition"]
  ELSE LET def == Definition(defs, type)
       IN [w EXCEPT !.blocks = Append(@,
             [type |-> type, fields |-> InstanceFields(def.args0),
              inputs |-> InstanceInputs(def.args0),
              previousStatement |-> def.previousStatement,
              nextStatement |-> def.nextStatement, next |-> 0, parent |-> 0])]

\* the block newBlock has just returned
Newest(w) == Len(w.blocks)

\* Number(value) of a string: the decimal numerals of the model, "" is 0,
\* anything else NaN
NotANumber == [k |-> "nan"]
Numerals == 0..9
Number(val) ==
  CASE val.k = "num" -> val
    [] val.k = "str" ->
         IF val.s = "" THEN Num(0)
         ELSE IF \E n \in Numerals : ToString(n) = val.s
         THEN Num(CHOOSE n \in Numerals : ToString(n) = val.s)
         ELSE NotANumber
    [] val.k = "bool" -> Num(IF val.b THEN 1 ELSE 0)
    [] val.k = "null" -> Num(0)
    [] OTHER -> NotANumber

\* field.setValue(text): what a field of each kind keeps of a string
Accepted(field, text) ==
  CASE field.type = "field_number" ->
         IF Number(Str(text)) = NotANumber THEN field.raw ELSE Number(Str(text))
    [] field.type = "field_checkbox" ->
         IF text \in {"TRUE", "FALSE"} THEN Str(text) ELSE field.raw
    [] field.type = "field_dropdown" ->
         IF text \in Range(field.options) THEN Str(text) ELSE field.raw
    [] OTHER -> Str(text)

\* block.setFieldValue(text, fieldName) inside try/catch: a block without
\* that field throws, the catch logs and goes on
trySetFieldValue(w, block, text, fieldName) ==
  IF w.failed # "none" THEN w
  ELSE IF ~MapHas(w.blocks[block].fields, fieldName)
  THEN [w EXCEPT !.warnings = Append(@, <<"Failed to set field", fieldName>>)]
  ELSE [w EXCEPT !.blocks[block].fields =
          MapSet(@, fieldName,
                 [MapGet(@, fieldName) EXCEPT
                    !.raw = Accepted(MapGet(w.blocks[block].fields, fieldName), text)])]

\* block.getFieldValue(fieldName): null when the block has no such field
getFieldValue(w, block, fieldName) ==
  IF MapHas(w.blocks[block].fields, fieldName)
  THEN MapGet(w.blocks[block].fields, fieldName).raw
  ELSE Null

\* input && input.connection
hasInput(w, block, fieldName) == MapHas(w.blocks[block].inputs, fieldName)
getCheck(w, block, fieldName) == MapGet(w.blocks[block].inputs, fieldName).check
getInputTargetBlock(w, block, fieldName) ==
  IF hasInput(w, block, fieldName)
  THEN MapGet(w.blocks[block].inputs, fieldName).target ELSE 0
getNextBlock(w, block) == w.blocks[block].next

\* two connections link only when their checks are compatible
Compatible(check, statement) ==
  IsSome(statement) /\ (check = <<>> \/ Get(statement) \in Range(check))

\* input.connection.connect(child.previousConnection)
connectInput(w, parent, fieldName, child) ==
  IF w.failed # "none" THEN w
  ELSE IF ~IsSome(w.blocks[child].previousStatement)
  THEN [w EXCEPT !.failed = "no previous connection"]
  ELSE IF Compatible(getCheck(w, parent, fieldName), w.blocks[child].previousStatement)
  THEN [w EXCEPT !.blocks[parent].inputs =
                   MapSet(@, fieldName, [MapGet(@, fieldName) EXCEPT !.target = child]),
                 !.blocks[child].parent = parent]
  ELSE w

\* previousBlock.nextConnection?.connect(child.previousConnection)
connectNext(w, previousBlock, child) ==
  IF w.failed # "none" THEN w
  ELSE IF ~IsSome(w.blocks[previousBlock].nextStatement) THEN w
  ELSE IF ~IsSome(w.blocks[child].previousStatement)
  THEN [w EXCEPT !.failed = "no previous connection"]
  ELSE IF Compatible(<<Get(w.blocks[previousBlock].nextStatement)>>,
                     w.blocks[child].previousStatement)
  THEN [w EXCEPT !.blocks[previousBlock].next = child,
                 !.blocks[child].parent = previousBlock]
  ELSE w

\* workspace.getBlocksByType(type, false)
getBlocksByType(w, type) ==
  SelectSeq([i \in 1..Len(w.blocks) |-> i], LAMBDA i : w.blocks[i].type = type)

(***************************************************************************)
(* ConfigLoader                                                            *)
(***************************************************************************)
\* config[propName]
Member(config, propName) ==
  IF config.k = "obj" /\ propName \in DOMAIN config.o THEN config.o[propName]
  ELSE Undefined

\* typeof value === 'object' (null and arrays included)
TypeofObject(value) == value.k \in {"obj", "arr", "null"}

\* value[property] === constant
StrictlyEqual(a, b) == a = b /\ a.k \in {"str", "num", "bool", "null", "undefined"}

\* the fallback of selectVariant
LastCandidate(candidates) == candidates[Len(candidates)]
FirstCandidate(candidates) == candidates[1]

selectVariant(variants, path, value) ==
  IF ~MapHas(variants, path) \/ MapGet(variants, path) = <<>> THEN None
  ELSE LET candidates == MapGet(variants, path)
           matching == {i \in 1..Len(candidates) :
                          /\ IsSome(candidates[i].discriminator)
                          /\ StrictlyEqual(
                               Member(value, Get(candidates[i].discriminator).property),
                               Get(candidates[i].discriminator).value)}
       IN IF value.k \in {"obj", "arr"} /\ matching # {}
          THEN Some(candidates[CHOOSE i \in matching : \A j \in matching : i <= j])
          ELSE Some(FirstCandidate(candidates))

setPrimitiveValue(w, block, fieldName, value, s) ==
  IF s.type = "boolean"
  THEN trySetFieldValue(w, block,
         IF value \in {Bool(FALSE), Num(0), Str(""), Null, Undefined} THEN "FALSE" ELSE "TRUE",
         fieldName)
  ELSE trySetFieldValue(w, block, String(value), fieldName)

\* the block type a slot is filled with: variant?.blockType ?? check[0]
UndeterminedThrows(variant, check) ==
  IF IsSome(variant) THEN Some(Get(variant).blockType)
  ELSE IF check # <<>> THEN Some(check[1]) ELSE Some("undefined")

SlotBlockType(variant, check) ==
  IF IsSome(variant) THEN Some(Get(variant).blockType)
  ELSE IF check # <<>> THEN Some(check[1]) ELSE None

\* variant?.schema ?? this.blockSchemaMap.get(blockType) ?? fallback
SlotSchema(gn, variant, blockType, fallback) ==
  IF IsSome(variant) THEN Get(variant).schema
  ELSE IF MapHas(gn.blockSchemaMap, blockType) THEN MapGet(gn.blockSchemaMap, blockType)
  ELSE fallback

RECURSIVE populateBlock(_,_,_,_,_,_)
RECURSIVE populateProperties(_,_,_,_,_,_)
RECURSIVE setFieldValue(_,_,_,_,_,_,_)
RECURSIVE loadArrayValue(_,_,_,_,_,_,_)
RECURSIVE loadItems(_,_,_,_,_,_,_,_)
RECURSIVE loadObjectValue(_,_,_,_,_,_,_)
RECURSIVE loadUnionValue(_,_,_,_,_,_)

populateBlock(gn, w, block, config, s, path) ==
  IF w.failed # "none" THEN w
  ELSE LET effectiveSchema ==
             IF MapHas(gn.blockSchemaMap, w.blocks[block].type)
             THEN MapGet(gn.blockSchemaMap, w.blocks[block].type) ELSE s
       IN populateProperties(gn, w, block, config, PropsOf(effectiveSchema), path)

\* the for loop of populateBlock
populateProperties(gn, w, block, config, properties, path) ==
  IF properties = <<>> \/ w.failed # "none" THEN w
  ELSE LET propName == Head(properties).name
           value == Member(config, propName)
           w1 == IF value \in {Undefined, Null} THEN w
                 ELSE setFieldValue(gn, w, block, toUpperCase(propName), value,
                                    Head(properties).schema, path \o "_" \o propName)
       IN populateProperties(gn, w1, block, config, Tail(properties), path)

setFieldValue(gn, w, block, fieldName, value, s, path) ==
  IF NonEmpty(s.oneOf) \/ NonEmpty(s.anyOf)
  THEN loadUnionValue(gn, w, block, fieldName, value, path)
  ELSE IF IsSome(s.enum) \/ s.type \in {"string", "number", "integer", "boolean"}
  THEN setPrimitiveValue(w, block, fieldName, value, s)
  ELSE IF s.type = "array" /\ value.k = "arr"
  THEN loadArrayValue(gn, w, block, fieldName, value.a, s, path)
  ELSE IF s.type = "object" /\ TypeofObject(value)
  THEN loadObjectValue(gn, w, block, fieldName, value, s, path)
  ELSE w

loadArrayValue(gn, w, parentBlock, fieldName, items, s, path) ==
  IF items = <<>> THEN w
  ELSE LET itemSchema == CASE s.items.kind = "tuple" -> s.items.ss[1]
                           [] s.items.kind = "one" -> s.items.s
                           [] OTHER -> [JSONSchema EXCEPT !.type = "string"]
       IN IF ~hasInput(w, parentBlock, fieldName) THEN w
          ELSE loadItems(gn, w, parentBlock, fieldName, items, itemSchema, path, 0)

\* the for loop of loadArrayValue; previousBlock is 0 for null
loadItems(gn, w, parentBlock, fieldName, items, itemSchema, path, previousBlock) ==
  IF items = <<>> \/ w.failed # "none" THEN w
  ELSE LET item == Head(items)
           variant == selectVariant(gn.variants, path, item)
           itemBlockType == SlotBlockType(variant, getCheck(w, parentBlock, fieldName))
       IN IF ~IsSome(itemBlockType)
          THEN loadItems(gn,
                 [w EXCEPT !.warnings = Append(@, <<"No block type found for array field", fieldName>>)],
                 parentBlock, fieldName, Tail(items), itemSchema, path, previousBlock)
          ELSE LET w1 == newBlock(w, gn.blocks, Get(itemBlockType))
                   itemBlock == Newest(w1)
                   effectiveSchema == SlotSchema(gn, variant, Get(itemBlockType), itemSchema)
                   w2 == IF w1.failed # "none" THEN w1
                         ELSE IF effectiveSchema.type = "object" /\ TypeofObject(item)
                         THEN populateBlock(gn, w1, itemBlock, item, effectiveSchema,
                                            Get(itemBlockType))
                         ELSE setPrimitiveValue(w1, itemBlock, "VALUE", item, effectiveSchema)
                   w3 == IF w2.failed # "none" THEN w2
                         ELSE IF previousBlock = 0
                         THEN connectInput(w2, parentBlock, fieldName, itemBlock)
                         ELSE connectNext(w2, previousBlock, itemBlock)
               IN loadItems(gn, w3, parentBlock, fieldName, Tail(items), itemSchema, path,
                            itemBlock)

loadObjectValue(gn, w, parentBlock, fieldName, value, s, path) ==
  IF ~hasInput(w, parentBlock, fieldName) THEN w
  ELSE LET variant == selectVariant(gn.variants, path, value)
           objectBlockType == SlotBlockType(variant, getCheck(w, parentBlock, fieldName))
       IN IF ~IsSome(objectBlockType)
          THEN [w EXCEPT !.warnings = Append(@, <<"No block type found for object field", fieldName>>)]
          ELSE LET w1 == newBlock(w, gn.blocks, Get(objectBlockType))
                   objectBlock == Newest(w1)
                   effectiveSchema == SlotSchema(gn, variant, Get(objectBlockType), s)
                   w2 == populateBlock(gn, w1, objectBlock, value, effectiveSchema,
                                       Get(objectBlockType))
               IN connectInput(w2, parentBlock, fieldName, objectBlock)

loadUnionValue(gn, w, block, fieldName, value, path) ==
  IF TypeofObject(value) /\ value # Null
  THEN loadObjectValue(gn, w, block, fieldName, value,
                       [JSONSchema EXCEPT !.type = "object"], path)
  ELSE IF ~hasInput(w, block, fieldName) THEN w
  ELSE LET variant == selectVariant(gn.variants, path, value)
           blockType == SlotBlockType(variant, getCheck(w, block, fieldName))
       IN IF ~IsSome(blockType)
          THEN [w EXCEPT !.warnings = Append(@, <<"No block type found for union field", fieldName>>)]
          ELSE LET w1 == newBlock(w, gn.blocks, Get(blockType))
                   variantBlock == Newest(w1)
                   w2 == IF w1.failed # "none" THEN w1
                         ELSE setPrimitiveValue(w1, variantBlock, "VALUE", value,
                                SlotSchema(gn, variant, Get(blockType), JSONSchema))
               IN connectInput(w2, block, fieldName, variantBlock)

\* const rootBlock = newBlock(rootBlockType); populateBlock(rootBlock, ...)
populateRoot(gn, w1, root, config) ==
  populateBlock(gn, w1, Newest(w1), config, root, gn.rootBlockType)

\* workspace.clear(): every block is disposed of
clear(w) == EmptyWorkspace

\* new ConfigLoader(schema, workspace, ...).load(config)
load(gn, w, root, config) ==
  populateRoot(gn, newBlock(clear(w), gn.blocks, gn.rootBlockType), root, config)

(***************************************************************************)
(* ConfigGenerator                                                         *)
(***************************************************************************)
DefaultOptions == [includeDefaults |-> FALSE, includeNulls |-> FALSE]

\* config[propName] = value
WithMember(config, propName, value) ==
  Obj([n \in DOMAIN config.o \cup {propName} |->
         IF n = propName THEN value ELSE config.o[n]])

\* value === '' || value === null || value === undefined
IsBlank(value) == value \in {Str(""), Null, Undefined}

extractPrimitiveValue(w, block, fieldName, s) ==
  LET value == getFieldValue(w, block, fieldName)
  IN IF IsBlank(value) THEN Undefined
     ELSE IF s.type \in {"number", "integer"} THEN Number(value)
     ELSE IF s.type = "boolean" THEN Bool(value = Str("TRUE") \/ value = Bool(TRUE))
     ELSE value

NullBeforeDefault(options, propSchema) ==
  IF options.includeNulls THEN Some(Null)
  ELSE IF options.includeDefaults /\ IsSome(propSchema.default) THEN propSchema.default
  ELSE None
\* what blockToConfig stores for a property without a value, if anything
MissingValue(options, propSchema) ==
  IF options.includeDefaults /\ IsSome(propSchema.default) THEN propSchema.default
  ELSE IF options.includeNulls THEN Some(Null)
  ELSE None

RECURSIVE blockToConfig(_,_,_,_,_,_)
RECURSIVE extractProperties(_,_,_,_,_,_,_)
RECURSIVE extractValue(_,_,_,_,_,_,_)
RECURSIVE extractItems(_,_,_,_,_,_)

blockToConfig(gn, options, w, block, s, path) ==
  LET effectiveSchema ==
        IF MapHas(gn.blockSchemaMap, w.blocks[block].type)
        THEN MapGet(gn.blockSchemaMap, w.blocks[block].type) ELSE s
  IN extractProperties(gn, options, w, block, PropsOf(effectiveSchema), path, EmptyObj)

\* the for loop of blockToConfig: the missing-field policy
extractProperties(gn, options, w, block, properties, path, config) ==
  IF properties = <<>> THEN config
  ELSE LET propName == Head(properties).name
           propSchema == Head(properties).schema
           value == extractValue(gn, options, w, block, toUpperCase(propName), propSchema,
                                 path \o "_" \o propName)
           config1 ==
             IF value \notin {Null, Undefined} THEN WithMember(config, propName, value)
             ELSE IF IsSome(MissingValue(options, propSchema))
             THEN WithMember(config, propName, Get(MissingValue(options, propSchema)))
             ELSE config
       IN extractProperties(gn, options, w, block, Tail(properties), path, config1)

extractUnionValue(gn, options, w, block, fieldName, path) ==
  LET nestedBlock == getInputTargetBlock(w, block, fieldName)
      type == w.blocks[nestedBlock].type
  IN IF nestedBlock = 0 THEN Undefined
     ELSE IF ~MapHas(gn.variants, path)
     THEN IF ~MapHas(gn.blockSchemaMap, type) THEN Undefined
          ELSE blockToConfig(gn, options, w, nestedBlock, MapGet(gn.blockSchemaMap, type), type)
     ELSE LET variantList == MapGet(gn.variants, path)
              found == {i \in 1..Len(variantList) : variantList[i].blockType = type}
          IN IF found # {}
             THEN blockToConfig(gn, options, w, nestedBlock,
                    variantList[CHOOSE i \in found : \A j \in found : i <= j].schema, type)
             ELSE IF MapHas(gn.blockSchemaMap, type)
             THEN blockToConfig(gn, options, w, nestedBlock, MapGet(gn.blockSchemaMap, type), type)
             ELSE Undefined

extractObjectValue(gn, options, w, block, fieldName, s) ==
  LET nestedBlock == getInputTargetBlock(w, block, fieldName)
  IN IF nestedBlock = 0 THEN Undefined
     ELSE blockToConfig(gn, options, w, nestedBlock, s, w.blocks[nestedBlock].type)

\* the while loop of extractArrayValue
extractItems(gn, options, w, itemBlock, itemSchema, items) ==
  IF itemBlock = 0 THEN items
  ELSE LET type == w.blocks[itemBlock].type
           effectiveSchema == IF MapHas(gn.blockSchemaMap, type)
                              THEN MapGet(gn.blockSchemaMap, type) ELSE itemSchema
           value == extractPrimitiveValue(w, itemBlock, "VALUE", effectiveSchema)
           items1 == IF effectiveSchema.type = "object"
                     THEN Append(items, blockToConfig(gn, options, w, itemBlock,
                                                      effectiveSchema, type))
                     ELSE IF value # Undefined THEN Append(items, value) ELSE items
       IN extractItems(gn, options, w, getNextBlock(w, itemBlock), itemSchema, items1)

extractArrayValue(gn, options, w, block, fieldName, s) ==
  LET itemSchema == CASE s.items.kind = "tuple" -> s.items.ss[1]
                      [] s.items.kind = "one" -> s.items.s
                      [] OTHER -> [JSONSchema EXCEPT !.type = "string"]
  IN Arr(extractItems(gn, options, w, getInputTargetBlock(w, block, fieldName),
                      itemSchema, <<>>))

extractValue(gn, options, w, block, fieldName, s, path) ==
  IF NonEmpty(s.oneOf) \/ NonEmpty(s.anyOf)
  THEN extractUnionValue(gn, options, w, block, fieldName, path)
  ELSE IF IsSome(s.enum) \/ s.type = "string"
  THEN IF IsBlank(getFieldValue(w, block, fieldName)) THEN Undefined
       ELSE getFieldValue(w, block, fieldName)
  ELSE IF s.type \in {"number", "integer"}
  THEN IF IsBlank(getFieldValue(w, block, fieldName)) THEN Undefined
       ELSE Number(getFieldValue(w, block, fieldName))
  ELSE IF s.type = "boolean"
  THEN Bool(getFieldValue(w, block, fieldName) \in {Str("TRUE"), Bool(TRUE)})
  ELSE IF s.type = "array" THEN extractArrayValue(gn, options, w, block, fieldName, s)
  ELSE IF s.type = "object" THEN extractObjectValue(gn, options, w, block, fieldName, s)
  ELSE Undefined

\* ConfigGenerator.generate(workspace, rootBlockType)
NewestRoot(rootBlocks) == rootBlocks[Len(rootBlocks)]
\* rootBlocks[0]
FirstRoot(rootBlocks) == rootBlocks[1]

generateConfig(gn, options, root, w) ==
  LET rootBlocks == getBlocksByType(w, gn.rootBlockType)
  IN IF rootBlocks = <<>>
     THEN [ok |-> FALSE, err |-> "No root configuration block found in workspace",
           config |-> Undefined, warned |-> FALSE]
     ELSE [ok |-> TRUE, err |-> "none", warned |-> Len(rootBlocks) > 1,
           config |-> blockToConfig(gn, options, w, FirstRoot(rootBlocks), root,
                                    gn.rootBlockType)]

(***************************************************************************)
(* Schema documents                                                        *)
(***************************************************************************)
Typed(t) == [JSONSchema EXCEPT !.type = t]
Ref(p) == [JSONSchema EXCEPT !.ref = p]
Props(entries) == [JSONSchema EXCEPT !.properties = Some(entries)]
Object(entries) == [JSONSchema EXCEPT !.type = "object", !.properties = Some(entries)]
ArrayOf(s) == [JSONSchema EXCEPT !.type = "array", !.items = ItemsOne(s)]
Const(v) == [JSONSchema EXCEPT !.const = Some(v)]
OneOf(ss) == [JSONSchema EXCEPT !.oneOf = Some(ss)]
AnyOf(ss) == [JSONSchema EXCEPT !.anyOf = Some(ss)]
AllOf(ss) == [JSONSchema EXCEPT !.allOf = Some(ss)]
Titled(t, s) == [s EXCEPT !.title = Some(t)]
Required(r, s) == [s EXCEPT !.required = Some(r)]
WithDefinitions(d, s) == [s EXCEPT !.definitions = Some(d)]

\* the definitions the composed documents refer to
Definitions ==
  <<Entry("A", Required(<<"c">>,
                 Object(<<Entry("a", Typed("number")), Entry("c", Typed("boolean"))>>))),
    Entry("B", [Object(<<Entry("b", Ref("#/definitions/A"))>>)
                  EXCEPT !.items = ItemsOne(Typed("number"))]),
    Entry("C", AllOf(<<Ref("#/definitions/A"),
                       Required(<<"a", "c">>, Props(<<Entry("a", Const(Str("x")))>>))>>))>>

\* the schemas composed under allOf
Branches ==
  {Props(<<Entry("a", Typed("string"))>>),
   Required(<<"b">>, Props(<<Entry("b", Typed("string"))>>)),
   Required(<<"b", "a">>, Object(<<Entry("a", Const(Str("x")))>>)),
   Ref("#/definitions/A"),
   [JSONSchema EXCEPT !.items = ItemsOne(Ref("#/definitions/A")),
                      !.additionalProperties = AddlBool(FALSE)],
   [Ref("#/definitions/C") EXCEPT !.additionalProperties = AddlSchema(Typed("string"))]}

\* the keywords a schema carries next to its allOf
OwnKeywords ==
  {JSONSchema,
   [Required(<<"z", "b">>,
      Object(<<Entry("z", Ref("#/definitions/B")), Entry("a", Typed("boolean"))>>))
     EXCEPT !.items = ItemsOne(Typed("boolean"))]}

MaxBranches == 3

BranchLists == UNION {[1..n -> Branches] : n \in 1..MaxBranches}

AllOfSchemas ==
  {WithDefinitions(Definitions, [own EXCEPT !.allOf = Some(bs)]) :
     own \in OwnKeywords, bs \in BranchLists}

\* BlockGenerator.test.ts: workloadSchema
workloadSchema ==
  WithDefinitions(
    <<Entry("Workload",
        Required(<<"id", "codeManagement", "incidents">>,
          Object(<<Entry("id", Typed("string")),
                   Entry("codeManagement",
                         Ref("#/definitions/WorkloadCodeManagementConfig")),
                   Entry("incidents", Ref("#/definitions/WorkloadTicketConfig"))>>))),
      Entry("WorkloadCodeManagementConfig",
        Required(<<"type", "serverId">>,
          Object(<<Entry("type", Typed("string")), Entry("serverId", Typed("string"))>>))),
      Entry("BaseWorkloadTicketConfig",
        Required(<<"type">>,
          Object(<<Entry("type", Typed("string")), Entry("serverId", Typed("string"))>>))),
      Entry("WorkloadTicketConfigAzure",
        AllOf(<<Ref("#/definitions/BaseWorkloadTicketConfig"),
                Required(<<"type", "projectName">>,
                  Object(<<Entry("type", Const(Str("azure"))),
                           Entry("projectName", Typed("string"))>>))>>)),
      Entry("WorkloadTicketConfigJira",
        AllOf(<<Ref("#/definitions/BaseWorkloadTicketConfig"),
                Required(<<"type", "projectName">>,
                  Object(<<Entry("type", Const(Str("jira"))),
                           Entry("projectName", Typed("string"))>>))>>)),
      Entry("WorkloadTicketConfig",
        OneOf(<<Ref("#/definitions/WorkloadTicketConfigAzure"),
                Ref("#/definitions/WorkloadTicketConfigJira")>>))>>,
    Object(<<Entry("workloads", ArrayOf(Ref("#/definitions/Workload")))>>))

\* a definition Node that leads back to "#/definitions/Node" through one
\* keyword, and the documents that refer to it
NodeThrough ==
  {Ref("#/definitions/Node"),
   Object(<<Entry("name", Typed("string")), Entry("child", Ref("#/definitions/Node"))>>),
   ArrayOf(Ref("#/definitions/Node")),
   [Typed("object") EXCEPT !.additionalProperties = AddlSchema(Ref("#/definitions/Node"))],
   AllOf(<<Typed("object"), Ref("#/definitions/Node")>>),
   OneOf(<<Typed("string"), Ref("#/definitions/Node")>>),
   AnyOf(<<Ref("#/definitions/Node"), Typed("string")>>),
   [Ref("#/definitions/A") EXCEPT
      !.properties = Some(<<Entry("child", Ref("#/definitions/Node"))>>)],
   [ArrayOf(Typed("string")) EXCEPT
      !.items = ItemsTuple(<<Typed("string"), Ref("#/definitions/Node")>>)],
   \* not circular
   Object(<<Entry("name", Typed("string")), Entry("child", Ref("#/definitions/A"))>>)}

NodeUsers ==
  {Ref("#/definitions/Node"),
   Object(<<Entry("n", Ref("#/definitions/Node"))>>),
   Object(<<Entry("a", Ref("#/definitions/A")), Entry("n", Ref("#/definitions/Node")),
            Entry("m", Ref("#/definitions/Node"))>>),
   ArrayOf(Ref("#/definitions/Node")),
   Object(<<Entry("a", Ref("#/definitions/A")), Entry("b", Ref("#/definitions/B")),
            Entry("c", Ref("#/definitions/C"))>>)}

NodeSchemas ==
  {WithDefinitions(Definitions \o <<Entry("Node", node)>>, user) :
     node \in NodeThrough, user \in NodeUsers}

\* pointers that do not resolve, "A" and "B" referring to each other
OtherSchemas ==
  {workloadSchema,
   Object(<<Entry("a", Ref("other.json#/definitions/A"))>>),
   WithDefinitions(Definitions, Object(<<Entry("a", Ref("#/definitions/Missing"))>>)),
   WithDefinitions(Definitions, Object(<<Entry("a", Ref("#/definitions/A/type"))>>)),
   WithDefinitions(Definitions, Object(<<Entry("a", Ref("#/definitions/A/type/x"))>>)),
   WithDefinitions(Definitions, Object(<<Entry("a", Ref("#/definitions"))>>)),
   Object(<<Entry("a", Typed("string")), Entry("b", Ref("#/properties/a"))>>),
   WithDefinitions(Definitions,
     Object(<<Entry("a", [Ref("#/definitions/A") EXCEPT
                            !.properties = Some(<<Entry("d", Ref("#/definitions/B"))>>)])>>)),
   WithDefinitions(
     <<Entry("A", Object(<<Entry("b", Ref("#/definitions/B"))>>)),
       Entry("B", Object(<<Entry("a", Ref("#/definitions/A"))>>))>>,
     Object(<<Entry("a", Ref("#/definitions/A"))>>))}

\* unions next to and beneath references and compositions
ComposedUnions ==
  {WithDefinitions(Definitions, s) : s \in
     {OneOf(<<Ref("#/definitions/A"), Ref("#/definitions/C"), Typed("string")>>),
      Object(<<Entry("u", AnyOf(<<Ref("#/definitions/B"),
                                  AllOf(<<Ref("#/definitions/A"),
                                          Props(<<Entry("d", Ref("#/definitions/B"))>>)>>)>>))>>),
      [OneOf(<<Ref("#/definitions/A")>>) EXCEPT
         !.allOf = Some(<<OneOf(<<Ref("#/definitions/B"), Typed("string")>>)>>)],
      [Ref("#/definitions/A") EXCEPT !.oneOf = Some(<<Ref("#/definitions/B")>>)],
      [Typed("object") EXCEPT
         !.additionalProperties =
            AddlSchema(OneOf(<<Ref("#/definitions/A"), Ref("#/definitions/B")>>)),
         !.items = ItemsTuple(<<Ref("#/definitions/C"),
                                AnyOf(<<Ref("#/definitions/A")>>)>>)],
      [Object(<<Entry("a", Ref("#/definitions/A"))>>) EXCEPT !.allOf = Some(<<>>)]}}

ResolverSchemas == AllOfSchemas \cup NodeSchemas \cup OtherSchemas \cup ComposedUnions

(***************************************************************************)
(* State                                                                   *)
(***************************************************************************)
NotRun == Fail("not run")
DefaultMaxDepth == 10

\* the fields of a SchemaConfigBuilder next to generationResult (gen):
\* the workspace it refers to (0 for null, else 1 or 2), whether the
\* extractor exists, and the workspace the loader was constructed with (0
\* while there is no loader)
NewBuilder(workspace) ==
  [workspace |-> workspace, configGenerator |-> FALSE, configLoader |-> 0]
\* Blockly: the block definitions registered, the toolbox shown, and the
\* second workspace of the page where it has one (graph is the first)
NoDefinitions == [defined |-> <<>>, toolbox |-> None, second |-> None]
\* the last call made: the operation, the options it was given, the error
\* it threw, whether it logged a diagnostic, and how many blocks the
\* workspace held when it was made
NoCall ==
  [op |-> "none", options |-> DefaultOptions, error |-> "none", warned |-> FALSE,
   before |-> 0, workspace |-> 0]
CallOf(op, error) == [NoCall EXCEPT !.op = op, !.error = error]

SessionIdle ==
  /\ builder = NewBuilder(1)
  /\ host = NoDefinitions
  /\ call = NoCall

InitIdle ==
  /\ SessionIdle
  /\ maxDepth = DefaultMaxDepth
  /\ resolved = NotRun
  /\ resolvedAgain = NotRun
  /\ gen = GenerationFailed("not run")
  /\ graph = EmptyWorkspace
  /\ loaded = Undefined
  /\ extracted = Undefined
  /\ selected = Undefined

(***************************************************************************)
(* The resolver applied to a document                                      *)
(***************************************************************************)
InitResolver == schema \in ResolverSchemas /\ InitIdle

\* new SchemaResolver(schema).resolve(schema)
ResolveRoot ==
  /\ resolved = NotRun
  /\ resolved' = resolveIn(schema, schema)
  /\ UNCHANGED <<schema, maxDepth, resolvedAgain, gen, graph, loaded, extracted, selected, builder, host, call>>

\* resolve applied to what resolve returned, same root document
ResolveAgain ==
  /\ resolved.ok
  /\ resolvedAgain = NotRun
  /\ resolvedAgain' = resolveIn(schema, resolved.s)
  /\ UNCHANGED <<schema, maxDepth, resolved, gen, graph, loaded, extracted, selected, builder, host, call>>

NextResolver == ResolveRoot \/ ResolveAgain

SpecResolver == InitResolver /\ [][NextResolver]_vars

(***************************************************************************)
(* Documents given to the builder                                          *)
(***************************************************************************)
\* the end-to-end scenario: an array whose items are one of A and B
scenarioSchema ==
  Object(<<Entry("items", ArrayOf(OneOf(<<
     Titled(<<"A">>, Props(<<Entry("kind", Const(Str("a")))>>)),
     Titled(<<"B">>, Props(<<Entry("kind", Const(Str("b")))>>))>>)))>>)

\* the same with branches that say they are objects and carry a field
typedScenarioSchema ==
  Object(<<Entry("items", ArrayOf(OneOf(<<
     Titled(<<"A">>, Object(<<Entry("kind", Const(Str("a"))), Entry("name", Typed("string"))>>)),
     Titled(<<"B">>, Object(<<Entry("kind", Const(Str("b"))), Entry("name", Typed("string"))>>))>>)))>>)

\* items: {oneOf: [], anyOf: [...]}: generateArrayBlock takes its variants
\* from the empty oneOf, and the slot gets an empty list of accepted types
emptyOneOfSchema ==
  Object(<<Entry("name", Typed("string")),
           Entry("items", ArrayOf([AnyOf(<<Object(<<Entry("kind", Const(Str("a")))>>),
                                           Object(<<Entry("kind", Const(Str("b")))>>)>>)
                                     EXCEPT !.oneOf = Some(<<>>)])),
           Entry("flag", Typed("boolean"))>>)

\* a union whose branches are scalars
scalarUnionSchema == Object(<<Entry("x", OneOf(<<Typed("string"), Typed("number")>>))>>)

\* unions at a property and at an array item, branches with and without titles
UnionSchemas ==
  {scenarioSchema, typedScenarioSchema, emptyOneOfSchema,
   Object(<<Entry("items", ArrayOf(OneOf(<<Object(<<Entry("a", Typed("string"))>>),
                                           Object(<<Entry("b", Typed("string"))>>)>>)))>>),
   Object(<<Entry("items", ArrayOf(AnyOf(<<Titled(<<"A">>, Object(<<Entry("a", Typed("string"))>>)),
                                           Titled(<<"A">>, Object(<<Entry("b", Typed("string"))>>)),
                                           Object(<<Entry("c", Typed("string"))>>)>>)))>>),
   Object(<<Entry("x", OneOf(<<Object(<<Entry("a", Typed("string"))>>),
                               Object(<<Entry("b", Typed("string"))>>)>>))>>),
   Object(<<Entry("x", AnyOf(<<Titled(<<"A">>, Object(<<Entry("name", Typed("string"))>>)),
                               Titled(<<"B">>, Object(<<Entry("kind", Const(Str("a")))>>)),
                               Titled(<<"C">>, Object(<<Entry("kind", Const(Str("a"))),
                                                        Entry("type", Const(Num(1)))>>))>>))>>),
   Object(<<Entry("y", Object(<<Entry("x", OneOf(<<
              Titled(<<"A">>, Object(<<Entry("kind", Const(Str("a")))>>)),
              Titled(<<"B">>, Object(<<Entry("type", Const(Str("b")))>>))>>))>>))>>),
   scalarUnionSchema,
   Object(<<Entry("x", AnyOf(<<Titled(<<"A">>, Typed("string")),
                               Titled(<<"B">>, Object(<<Entry("name", Typed("string"))>>))>>))>>)}

\* names that join to the same block type
JoinedNameSchemas ==
  {Object(<<Entry("a_b", Object(<<Entry("x", Typed("string"))>>)),
            Entry("a", Object(<<Entry("b", Object(<<Entry("y", Typed("string"))>>))>>))>>),
   Object(<<Entry("x", ArrayOf(Object(<<Entry("a", Typed("string"))>>))),
            Entry("x_item", Object(<<Entry("b", Typed("string"))>>))>>)}

\* objects nested n deep under the property "a", a string at the bottom
RECURSIVE Nested(_)
Nested(n) ==
  IF n = 0 THEN Object(<<Entry("name", Typed("string"))>>)
  ELSE Object(<<Entry("name", Typed("string")), Entry("a", Nested(n - 1))>>)

NestingDepth == 4

\* arrays of objects nested n deep
RECURSIVE NestedItems(_)
NestedItems(n) ==
  IF n = 0 THEN Object(<<Entry("name", Typed("string"))>>)
  ELSE Object(<<Entry("name", Typed("string")), Entry("items", ArrayOf(NestedItems(n - 1)))>>)

\* an object schema one of whose properties refers back to it
SelfReferential ==
  {WithDefinitions(<<Entry("Node", Object(<<Entry("name", Typed("string")),
                                            Entry("child", Ref("#/definitions/Node"))>>))>>,
                   user) :
     user \in {Ref("#/definitions/Node"),
               Object(<<Entry("n", Ref("#/definitions/Node"))>>)}}

DeepSchemas == {Nested(NestingDepth), NestedItems(NestingDepth)} \cup SelfReferential

\* first-level properties with types beneath them
CategorySchemas ==
  {workloadSchema,
   Object(<<Entry("servers", ArrayOf(Titled(<<"Server">>,
              Object(<<Entry("host", Typed("string")),
                       Entry("tags", ArrayOf(Typed("string"))),
                       Entry("child", Object(<<Entry("port", Typed("number"))>>))>>))))>>),
   Object(<<Entry("x", Object(<<Entry("items", ArrayOf(Object(<<Entry("a", Typed("string"))>>))),
                                Entry("tags", ArrayOf(Typed("number"))),
                                Entry("child", Object(<<Entry("y",
                                   Object(<<Entry("flag", Typed("boolean"))>>))>>))>>)),
            Entry("y", Titled(<<"Code", "Management">>,
                          Object(<<Entry("name", Typed("string"))>>))),
            Entry("workloads", ArrayOf(Object(<<Entry("id", Typed("string")),
                          Entry("incidents", Object(<<Entry("type", Typed("string"))>>))>>)))>>)}

\* schemas without oneOf and anyOf
VariantFreeSchemas ==
  {Object(<<Entry("name", Typed("string")), Entry("port", Typed("number")),
            Entry("flag", Typed("boolean"))>>),
   Required(<<"name", "flag">>,
     Object(<<Entry("name", Typed("string")), Entry("flag", Typed("boolean"))>>)),
   Required(<<"tags">>, Object(<<Entry("tags", ArrayOf(Typed("string")))>>)),
   Object(<<Entry("tags", ArrayOf(Typed("number")))>>),
   Object(<<Entry("servers", ArrayOf(Required(<<"host">>,
              Object(<<Entry("host", Typed("string")), Entry("port", Typed("integer"))>>))))>>),
   Object(<<Entry("child", Required(<<"name">>, Object(<<Entry("name", Typed("string"))>>)))>>),
   Object(<<Entry("level", [Typed("string") EXCEPT !.enum = Some(<<Str("x"), Str("y")>>)])>>),
   Object(<<Entry("level", [Typed("number") EXCEPT !.enum = Some(<<Num(1), Num(2)>>)])>>),
   Object(<<Entry("kind", Const(Str("a"))), Entry("name", Typed("string"))>>),
   Props(<<Entry("name", Typed("string"))>>)}

\* roots the generator refuses
RefusedSchemas ==
  {Typed("string"), ArrayOf(Typed("string")),
   WithDefinitions(<<Entry("A", Typed("string"))>>, Ref("#/definitions/A")),
   WithDefinitions(<<Entry("B", ArrayOf(Typed("string")))>>,
                   [Props(<<Entry("name", Typed("string"))>>)
                      EXCEPT !.allOf = Some(<<Ref("#/definitions/B")>>)])}

BuilderSchemas ==
  UnionSchemas \cup JoinedNameSchemas \cup DeepSchemas \cup CategorySchemas
  \cup VariantFreeSchemas \cup RefusedSchemas

(***************************************************************************)
(* Configurations conforming to a schema                                   *)
(***************************************************************************)
MaxItems == 2
StringValues == {Str(""), Str("x")}
NumberValues == {Num(0), Num(5)}

SeqsUpTo(S, n) == UNION {[1..k -> S] : k \in 0..n}

RECURSIVE Conforming(_)
RECURSIVE ConformingObjects(_,_)

\* the objects over the given properties: each property absent (unless
\* required) or holding a conforming value
ConformingObjects(properties, required) ==
  IF properties = <<>> THEN {EmptyObj}
  ELSE LET first == Head(properties)
           rest == ConformingObjects(Tail(properties), required)
           with == {WithMember(o, first.name, v) : o \in rest, v \in Conforming(first.schema)}
       IN IF first.name \in Range(required) THEN with ELSE with \cup rest

\* the values of the model that are valid against the resolved schema s
Conforming(s) ==
  IF NonEmpty(s.oneOf) THEN UNION {Conforming(b) : b \in Range(Get(s.oneOf))}
  ELSE IF NonEmpty(s.anyOf) THEN UNION {Conforming(b) : b \in Range(Get(s.anyOf))}
  ELSE IF IsSome(s.const) THEN {Get(s.const)}
  ELSE IF IsSome(s.enum) THEN Range(Get(s.enum))
  ELSE CASE s.type = "string" -> StringValues
         [] s.type \in {"number", "integer"} -> NumberValues
         [] s.type = "boolean" -> {Bool(TRUE), Bool(FALSE)}
         [] s.type = "array" ->
              {Arr(a) : a \in SeqsUpTo(
                 Conforming(CASE s.items.kind = "one" -> s.items.s
                              [] s.items.kind = "tuple" -> s.items.ss[1]
                              [] OTHER -> JSONSchema), MaxItems)}
         [] s.type = "object" \/ IsSome(s.properties) ->
              ConformingObjects(PropsOf(s), OrEmpty(s.required))
         [] OTHER -> {Str("x")}

Workload(id, incidents) ==
  Obj([n \in {"id", "codeManagement", "incidents"} |->
         CASE n = "id" -> Str(id)
           [] n = "codeManagement" ->
                Obj([m \in {"type", "serverId"} |-> IF m = "type" THEN Str("x") ELSE Str("y")])
           [] OTHER -> incidents])

Ticket(type) ==
  Obj([n \in {"type", "projectName"} |-> IF n = "type" THEN Str(type) ELSE Str("x")])

\* configurations of workloadSchema
WorkloadConfigs ==
  {Obj([n \in {"workloads"} |-> Arr(a)]) :
     a \in SeqsUpTo({Workload("x", Ticket("azure")), Workload("y", Ticket("jira"))}, MaxItems)}

\* configurations of Nested(n) and NestedItems(n), k levels deep
RECURSIVE NestedConfig(_)
NestedConfig(k) ==
  IF k = 0 THEN Obj([n \in {"name"} |-> Str("x")])
  ELSE Obj([n \in {"name", "a"} |-> IF n = "name" THEN Str("x") ELSE NestedConfig(k - 1)])

RECURSIVE NestedItemsConfig(_)
NestedItemsConfig(k) ==
  IF k = 0 THEN Obj([n \in {"name"} |-> Str("x")])
  ELSE Obj([n \in {"name", "items"} |->
              IF n = "name" THEN Str("x") ELSE Arr(<<NestedItemsConfig(k - 1)>>)])

\* the configurations a document is loaded with
Configs(root) ==
  IF root \in VariantFreeSchemas \cup UnionSchemas \cup JoinedNameSchemas
  THEN Conforming(resolveIn(root, root).s)
  ELSE IF root = workloadSchema THEN WorkloadConfigs
  ELSE IF root = Nested(NestingDepth) THEN {NestedConfig(k) : k \in 0..NestingDepth}
  ELSE IF root = NestedItems(NestingDepth)
  THEN {NestedItemsConfig(k) : k \in 0..NestingDepth}
  ELSE {EmptyObj}

(***************************************************************************)
(* SchemaConfigBuilder over a workspace                                    *)
(***************************************************************************)
SmallMaxDepth == 2

\* the values of config.maxDepth: the small ones and the default
DepthLimits == 0..SmallMaxDepth \cup {DefaultMaxDepth}

Init ==
  /\ schema \in BuilderSchemas
  /\ maxDepth \in IF schema \in DeepSchemas \cup CategorySchemas \cup {scalarUnionSchema}
                  THEN DepthLimits ELSE {DefaultMaxDepth}
  /\ resolved = NotRun
  /\ resolvedAgain = NotRun
  /\ gen = GenerationFailed("not run")
  /\ graph = EmptyWorkspace
  /\ loaded = Undefined
  /\ extracted = Undefined
  /\ selected = Undefined
  /\ SessionIdle

\* builder.generateBlocks(); builder.registerBlocks(Blockly)
GenerateBlocks ==
  /\ gen = GenerationFailed("not run")
  /\ gen' = generate(schema, maxDepth)
  /\ UNCHANGED <<schema, maxDepth, resolved, resolvedAgain, graph, loaded, extracted, selected, builder, host, call>>

\* builder.loadConfig(config), into the empty workspace, in a behaviour
\* that does not also ask selectVariant
LoadConfig ==
  /\ gen.ok
  /\ loaded = Undefined
  /\ selected = Undefined
  /\ \E config \in Configs(schema) :
       /\ graph' = load(gen, graph, schema, config)
       /\ loaded' = config
  /\ extracted' = Undefined
  /\ UNCHANGED <<schema, maxDepth, resolved, resolvedAgain, gen, selected, builder, host, call>>

\* builder.generateConfig() with the default options
GenerateConfig ==
  /\ gen.ok
  /\ graph.failed = "none"
  /\ getBlocksByType(graph, gen.rootBlockType) # <<>>
  /\ extracted = Undefined
  /\ extracted' = generateConfig(gen, DefaultOptions, schema, graph).config
  /\ UNCHANGED <<schema, maxDepth, resolved, resolvedAgain, gen, graph, loaded, selected, builder, host, call>>

\* the values selectVariant is asked about at a path: one per discriminator
\* registered there, with and without other members, and values that match
\* none
Probes(variants, path) ==
  LET candidates == IF MapHas(variants, path) THEN MapGet(variants, path) ELSE <<>>
      discriminators == {Get(candidates[i].discriminator) :
                           i \in {j \in 1..Len(candidates) : IsSome(candidates[j].discriminator)}}
  IN {EmptyObj, Str("a"), Str("azure"), Num(1), Null, Arr(<<>>),
      Obj([n \in {"kind"} |-> Str("z")]),
      Obj([n \in {"kind", "type"} |-> IF n = "kind" THEN Str("a") ELSE Num(1)]),
      Obj([n \in {"kind", "type"} |-> IF n = "kind" THEN Str("a") ELSE Str("1")])}
     \cup {Obj([n \in {d.property} |-> d.value]) : d \in discriminators}
     \cup {Obj([n \in {d.property, "name"} |-> IF n = d.property THEN d.value ELSE Str("x")]) :
             d \in discriminators}

NowherePath == "config_root_nowhere"

\* loader.selectVariant(path, value)
SelectVariant ==
  /\ gen.ok
  /\ selected = Undefined
  /\ loaded = Undefined
  /\ \E path \in MapKeys(gen.variants) \cup {NowherePath} :
       \E value \in Probes(gen.variants, path) :
         selected' = [path |-> path, value |-> value,
                      variant |-> selectVariant(gen.variants, path, value)]
  /\ UNCHANGED <<schema, maxDepth, resolved, resolvedAgain, gen, graph, loaded, extracted, builder, host, call>>

Next == GenerateBlocks \/ LoadConfig \/ GenerateConfig \/ SelectVariant

Spec == Init /\ [][Next]_vars

(***************************************************************************)
(* The schemas written in a document                                       *)
(***************************************************************************)
SchemasOf(o) == IF IsSome(o) THEN Range(Get(o)) ELSE {}
EntrySchemasOf(o) == IF IsSome(o) THEN {e.schema : e \in Range(Get(o))} ELSE {}
ItemSchemasOf(s) ==
  CASE s.items.kind = "one" -> {s.items.s}
    [] s.items.kind = "tuple" -> Range(s.items.ss)
    [] OTHER -> {}
AddlSchemasOf(s) ==
  IF s.additionalProperties.kind = "schema" THEN {s.additionalProperties.s} ELSE {}

\* the nodes resolve descends into: properties, items, additionalProperties,
\* oneOf and anyOf
NestedUnder(s) ==
  EntrySchemasOf(s.properties) \cup ItemSchemasOf(s) \cup AddlSchemasOf(s)
    \cup SchemasOf(s.oneOf) \cup SchemasOf(s.anyOf)

RECURSIVE NodesOf(_)
NodesOf(s) == {s} \cup UNION {NodesOf(c) : c \in NestedUnder(s)}

\* every schema written anywhere in a document
RECURSIVE WrittenIn(_)
WrittenIn(s) ==
  {s} \cup UNION {WrittenIn(c) :
                    c \in NestedUnder(s) \cup SchemasOf(s.allOf)
                            \cup EntrySchemasOf(s.definitions)}

(***************************************************************************)
(* SchemaValidator: Ajv's verdicts for the keywords of the model           *)
(***************************************************************************)
HasType(type, value) ==
  CASE type = Undef -> TRUE
    [] type = "string" -> value.k = "str"
    [] type \in {"number", "integer"} -> value.k = "num"
    [] type = "boolean" -> value.k = "bool"
    [] type = "array" -> value.k = "arr"
    [] type = "object" -> value.k = "obj"
    [] type = "null" -> value.k = "null"
    [] OTHER -> FALSE

ValidationFuel == 8

RECURSIVE Validates(_,_,_,_)

ValidatesTarget(root, target, value, fuel) ==
  target.ok /\ Validates(root, target.s, value, fuel)

ValidatesItems(root, s, items, fuel) ==
  CASE s.items.kind = "one" ->
         \A i \in 1..Len(items) : Validates(root, s.items.s, items[i], fuel)
    [] s.items.kind = "tuple" ->
         \A i \in 1..Len(items) :
           i <= Len(s.items.ss) => Validates(root, s.items.ss[i], items[i], fuel)
    [] OTHER -> TRUE

ValidatesMembers(root, s, o, fuel) ==
  /\ \A n \in DOMAIN o :
       IF n \in Names(PropsOf(s)) THEN Validates(root, Lookup(PropsOf(s), n), o[n], fuel)
       ELSE CASE s.additionalProperties.kind = "bool" -> s.additionalProperties.b
              [] s.additionalProperties.kind = "schema" ->
                   Validates(root, s.additionalProperties.s, o[n], fuel)
              [] OTHER -> TRUE
  /\ Range(OrEmpty(s.required)) \subseteq DOMAIN o

\* the compiled validate function applied to a value
Validates(root, s, value, fuel) ==
  /\ fuel > 0
  /\ s.ref # Undef => ValidatesTarget(root, resolvePointer(root, s.ref), value, fuel - 1)
  /\ HasType(s.type, value)
  /\ IsSome(s.const) => value = Get(s.const)
  /\ IsSome(s.enum) => value \in Range(Get(s.enum))
  /\ value.k = "obj" => ValidatesMembers(root, s, value.o, fuel - 1)
  /\ value.k = "arr" => ValidatesItems(root, s, value.a, fuel - 1)
  /\ \A i \in 1..Len(OrEmpty(s.allOf)) : Validates(root, Get(s.allOf)[i], value, fuel - 1)
  /\ IsSome(s.anyOf) =>
       \E i \in 1..Len(Get(s.anyOf)) : Validates(root, Get(s.anyOf)[i], value, fuel - 1)
  /\ IsSome(s.oneOf) =>
       Cardinality({i \in 1..Len(Get(s.oneOf)) :
                      Validates(root, Get(s.oneOf)[i], value, fuel - 1)}) = 1

\* ajv.compile(schema) throws on a reference it cannot find
Compiles(root) ==
  \A w \in WrittenIn(root) : w.ref # Undef => resolvePointer(root, w.ref).ok

\* validateSchema(schema).valid
validateSchema(root) ==
  /\ Compiles(root)
  /\ ~(root.type = Undef /\ ~IsSome(root.properties) /\ root.items.kind = "none")
  /\ ~(root.type = "object" /\ ~IsSome(root.properties))

AcceptAnyConfig(root, config) == TRUE
\* validateConfig(config).valid, the schema being the one compiled by
\* validateSchema
validateConfig(root, config) == Validates(root, root, config, ValidationFuel)

(***************************************************************************)
(* SchemaConfigBuilder: a session of calls on one builder, and of edits    *)
(* the user makes in the workspace                                         *)
(***************************************************************************)
WithDefault(value, s) == [s EXCEPT !.default = Some(value)]

serviceSchema ==
  Required(<<"name">>,
    Object(<<Entry("name", WithDefault(Str("svc"), Typed("string"))),
             Entry("level", Typed("string")),
             Entry("flag", Typed("boolean")),
             Entry("child", Object(<<Entry("host", WithDefault(Str("h"), Typed("string")))>>))>>))

referringSchema ==
  WithDefinitions(<<Entry("A", Required(<<"c">>,
                      Object(<<Entry("a", Typed("number")), Entry("c", Typed("boolean"))>>)))>>,
                  Object(<<Entry("a", Ref("#/definitions/A"))>>))

\* the documents builders are constructed with; the constructor throws for
\* those validateSchema rejects
SessionSchemas ==
  {serviceSchema, referringSchema, typedScenarioSchema,
   Object(<<Entry("tags", ArrayOf(Typed("string")))>>),
   Typed("string"), Typed("object"), Ref("#/definitions/A")}

Obj1(name, value) == Obj([n \in {name} |-> value])

\* the values loadConfig is called with
CandidateConfigs ==
  {EmptyObj, Str("x"),
   Obj1("name", Str("x")),
   WithMember(WithMember(WithMember(Obj1("name", Str("x")), "level", Str("")),
                         "flag", Bool(TRUE)), "child", Obj1("host", Str("y"))),
   Obj1("name", Num(5)),
   Obj1("tags", Arr(<<Str("x"), Str("y")>>)),
   Obj1("tags", Str("x")),
   Obj1("items", Arr(<<WithMember(Obj1("kind", Str("a")), "name", Str("x")),
                       Obj1("kind", Str("b"))>>)),
   Obj1("items", Arr(<<Obj1("kind", Str("z"))>>)),
   Obj1("a", WithMember(Obj1("a", Num(5)), "c", Bool(TRUE))),
   Obj1("a", Obj1("a", Num(5)))}

\* the options generateConfig is called with
OptionSets == [includeDefaults : BOOLEAN, includeNulls : BOOLEAN]

\* what the user types into a field
EditTexts == {"", "7"}
\* the user adds blocks to a workspace that holds fewer than this
MaxBlocks == 2

WorkspaceNotProvided == "Workspace not provided"
MustCallGenerateBlocksFirst == "Must call generateBlocks() first"
InvalidConfiguration == "Invalid configuration"

NeverMissing(present) == FALSE
\* !this.generationResult, !this.configGenerator, !this.configLoader
Missing(present) == ~present

InitBuilder ==
  /\ schema \in {s \in SessionSchemas : validateSchema(s)}
  /\ maxDepth = DefaultMaxDepth
  /\ resolved = NotRun
  /\ resolvedAgain = NotRun
  /\ gen = GenerationFailed("not run")
  /\ graph = EmptyWorkspace
  /\ loaded = Undefined
  /\ extracted = Undefined
  /\ selected = Undefined
  /\ builder \in {NewBuilder(1), NewBuilder(0)}
  /\ host = NoDefinitions
  /\ call = NoCall

\* the workspaces of the page, and what one holds
Workspaces == IF IsSome(host.second) THEN {1, 2} ELSE {1}
WorkspaceOf(id) == IF id = 2 THEN Get(host.second) ELSE graph

\* the workspace holds w from now on, the other one what it held
Stored(id, w) ==
  IF id = 2 THEN host' = [host EXCEPT !.second = Some(w)] /\ graph' = graph
  ELSE graph' = w /\ host' = host

\* the call made, the configuration it was given and the value it returned
Returns(c, config, result) ==
  /\ call' = [c EXCEPT !.before = Len(graph.blocks)]
  /\ loaded' = config
  /\ extracted' = result
  /\ UNCHANGED <<schema, maxDepth, resolved, resolvedAgain, selected>>

\* a call that throws before it changes anything
Throws(op, error, config) ==
  /\ Returns(CallOf(op, error), config, Undefined)
  /\ UNCHANGED <<gen, builder, host, graph>>

\* if (this.workspace) this.configLoader = new ConfigLoader(.., this.workspace, ..)
InitialLoader(loader, workspace) == IF workspace # 0 THEN workspace ELSE loader

GenerateBlocksWith(result) ==
  IF ~result.ok THEN Throws("generateBlocks", result.err, Undefined)
  ELSE /\ gen' = result
       /\ builder' = [builder EXCEPT !.configGenerator = TRUE,
                                     !.configLoader = InitialLoader(@, builder.workspace)]
       /\ Returns(CallOf("generateBlocks", "none"), Undefined, Undefined)
       /\ UNCHANGED <<host, graph>>

\* builder.generateBlocks()
BuilderGenerateBlocks == GenerateBlocksWith(generate(schema, maxDepth))

\* builder.registerBlocks(Blockly)
BuilderRegisterBlocks ==
  IF Missing(gen.ok) THEN Throws("registerBlocks", MustCallGenerateBlocksFirst, Undefined)
  ELSE /\ host' = [host EXCEPT !.defined = gen.blocks]
       /\ Returns(CallOf("registerBlocks", "none"), Undefined, Undefined)
       /\ UNCHANGED <<gen, builder, graph>>

\* builder.updateToolbox()
BuilderUpdateToolbox ==
  IF builder.workspace = 0 THEN Throws("updateToolbox", WorkspaceNotProvided, Undefined)
  ELSE IF Missing(gen.ok)
  THEN Throws("updateToolbox", MustCallGenerateBlocksFirst, Undefined)
  ELSE /\ host' = [host EXCEPT !.toolbox = Some(gen.toolbox)]
       /\ Returns(CallOf("updateToolbox", "none"), Undefined, Undefined)
       /\ UNCHANGED <<gen, builder, graph>>

GenerateConfigWith(options, result) ==
  /\ Returns([CallOf("generateConfig", result.err) EXCEPT
                !.options = options, !.warned = result.warned],
             Undefined, result.config)
  /\ UNCHANGED <<gen, builder, host, graph>>

\* builder.generateConfig(options)
BuilderGenerateConfig ==
  IF builder.workspace = 0 THEN Throws("generateConfig", WorkspaceNotProvided, Undefined)
  ELSE IF Missing(builder.configGenerator) \/ Missing(gen.ok)
  THEN Throws("generateConfig", MustCallGenerateBlocksFirst, Undefined)
  ELSE \E options \in OptionSets :
         GenerateConfigWith(options, generateConfig(gen, options, schema,
                                                    WorkspaceOf(builder.workspace)))

\* builder.formatConfig(config)
BuilderFormatConfig ==
  IF Missing(builder.configGenerator)
  THEN Throws("formatConfig", MustCallGenerateBlocksFirst, Undefined)
  ELSE Throws("formatConfig", "none", Undefined)

LoadWith(config, w) ==
  /\ Stored(builder.configLoader, [w EXCEPT !.failed = "none", !.warnings = <<>>])
  /\ Returns([CallOf("loadConfig", w.failed) EXCEPT !.warned = w.warnings # <<>>],
             config, Undefined)
  /\ UNCHANGED <<gen, builder>>

\* the loader, creating blocks of the types Blockly has definitions for
Registered == [gen EXCEPT !.blocks = host.defined]

\* builder.loadConfig(config)
BuilderLoadConfig ==
  \E config \in CandidateConfigs :
    IF builder.workspace = 0 THEN Throws("loadConfig", WorkspaceNotProvided, config)
    ELSE IF Missing(builder.configLoader # 0)
    THEN Throws("loadConfig", MustCallGenerateBlocksFirst, config)
    ELSE IF ~validateConfig(schema, config)
    THEN Throws("loadConfig", InvalidConfiguration, config)
    ELSE LoadWith(config, load(Registered, WorkspaceOf(builder.configLoader), schema, config))

LoaderKept(loader, workspace, result) == loader

\* if (this.generationResult) this.configLoader = new ConfigLoader(.., workspace, ..)
Reinitialised(loader, workspace, result) == IF result.ok THEN workspace ELSE loader

\* builder.setWorkspace(workspace)
BuilderSetWorkspace ==
  \E workspace \in Workspaces :
    /\ builder' = [builder EXCEPT !.workspace = workspace,
                                  !.configLoader = Reinitialised(@, workspace, gen)]
    /\ Returns([CallOf("setWorkspace", "none") EXCEPT !.workspace = workspace],
               Undefined, Undefined)
    /\ UNCHANGED <<gen, host, graph>>

\* builder.clearWorkspace()
BuilderClearWorkspace ==
  IF builder.workspace = 0 THEN Throws("clearWorkspace", WorkspaceNotProvided, Undefined)
  ELSE /\ Stored(builder.workspace, clear(WorkspaceOf(builder.workspace)))
       /\ Returns(CallOf("clearWorkspace", "none"), Undefined, Undefined)
       /\ UNCHANGED <<gen, builder>>

Edited(w) ==
  /\ graph' = [w EXCEPT !.failed = "none", !.warnings = <<>>]
  /\ Returns(CallOf("edit", "none"), Undefined, Undefined)
  /\ UNCHANGED <<gen, builder, host>>

\* the user drags a block of a registered type into the workspace
UserAddsBlock ==
  /\ Len(graph.blocks) < MaxBlocks
  /\ \E i \in 1..Len(host.defined) :
       Edited(newBlock(graph, host.defined, host.defined[i].type))

\* the user types into a field of a block
UserSetsField ==
  \E block \in 1..Len(graph.blocks) :
    \E fieldName \in MapKeys(graph.blocks[block].fields) :
      \E text \in EditTexts : Edited(trySetFieldValue(graph, block, text, fieldName))

NextBuilder ==
  \/ BuilderGenerateBlocks
  \/ BuilderRegisterBlocks
  \/ BuilderUpdateToolbox
  \/ BuilderGenerateConfig
  \/ BuilderFormatConfig
  \/ BuilderLoadConfig
  \/ BuilderSetWorkspace
  \/ BuilderClearWorkspace
  \/ UserAddsBlock
  \/ UserSetsField

SpecBuilder == InitBuilder /\ [][NextBuilder]_vars

(***************************************************************************)
(* SchemaConfigBuilder on a page with two workspaces                       *)
(***************************************************************************)
\* new SchemaConfigBuilder(schema), new SchemaConfigBuilder(schema, workspace)
InitWorkspaces ==
  /\ schema \in {serviceSchema, typedScenarioSchema}
  /\ maxDepth = DefaultMaxDepth
  /\ resolved = NotRun
  /\ resolvedAgain = NotRun
  /\ gen = GenerationFailed("not run")
  /\ graph = EmptyWorkspace
  /\ loaded = Undefined
  /\ extracted = Undefined
  /\ selected = Undefined
  /\ builder \in {NewBuilder(workspace) : workspace \in 0..2}
  /\ host = [NoDefinitions EXCEPT !.second = Some(EmptyWorkspace)]
  /\ call = NoCall

NextWorkspaces ==
  \/ BuilderGenerateBlocks
  \/ BuilderRegisterBlocks
  \/ BuilderGenerateConfig
  \/ BuilderLoadConfig
  \/ BuilderSetWorkspace
  \/ BuilderClearWorkspace

SpecWorkspaces == InitWorkspaces /\ [][NextWorkspaces]_vars

(***************************************************************************)
(* The reference graph of a document                                       *)
(***************************************************************************)
RECURSIVE RefsIn(_)
RECURSIVE RefsInEach(_)
RefsInEach(list) ==
  IF list = <<>> THEN {} ELSE RefsIn(Head(list)) \cup RefsInEach(Tail(list))

\* the pointers written in s at the places resolve descends into
RefsIn(s) ==
  (IF s.ref # Undef THEN {s.ref} ELSE {})
  \cup RefsInEach(OrEmpty(s.allOf)) \cup RefsInEach(OrEmpty(s.oneOf))
  \cup RefsInEach(OrEmpty(s.anyOf))
  \cup RefsInEach([i \in 1..Len(PropsOf(s)) |-> PropsOf(s)[i].schema])
  \cup (CASE s.items.kind = "one" -> RefsIn(s.items.s)
          [] s.items.kind = "tuple" -> RefsInEach(s.items.ss)
          [] OTHER -> {})
  \cup (IF s.additionalProperties.kind = "schema"
        THEN RefsIn(s.additionalProperties.s) ELSE {})

RefersTo(root, p) ==
  IF resolvePointer(root, p).ok THEN RefsIn(resolvePointer(root, p).s) ELSE {}

RECURSIVE ReachableFrom(_,_)
ReachableFrom(root, ps) ==
  LET more == ps \cup UNION {RefersTo(root, p) : p \in ps}
  IN IF more = ps THEN ps ELSE ReachableFrom(root, more)

\* some pointer reachable from s leads back to itself
Revisits(root, s) ==
  \E p \in ReachableFrom(root, RefsIn(s)) : p \in ReachableFrom(root, RefersTo(root, p))

PointersValid(root, s) ==
  \A p \in ReachableFrom(root, RefsIn(s)) : resolvePointer(root, p).ok

(***************************************************************************)
(* C3  Cycle safety and termination: resolve of a document whose reference *)
(* graph leads back into a pointer fails with the circular-reference       *)
(* error, and no resolve runs out of the recursion budget.                 *)
(***************************************************************************)
CycleSafety ==
  /\ resolved.err # "diverged"
  /\ resolvedAgain.err # "diverged"
  /\ (resolved # NotRun /\ Revisits(schema, schema) /\ PointersValid(schema, schema))
       => resolved.err = "circular"

CycleSafetyWitness ==
  /\ resolved.err = "circular"
  /\ Revisits(schema, schema)
  /\ schema.type = "array"

(***************************************************************************)
(* C8  Idempotent resolution: resolving what resolve returned gives the    *)
(* same schema.                                                            *)
(***************************************************************************)
IdempotentResolution == resolvedAgain # NotRun => resolvedAgain = resolved

IdempotentResolutionWitness ==
  /\ resolvedAgain.ok
  /\ resolvedAgain = resolved
  /\ resolved.s # schema
  /\ RefsIn(schema) # {}

(***************************************************************************)
(* allOf merge                                                             *)
(***************************************************************************)
LastWith(parts, P(_)) ==
  CHOOSE i \in 1..Len(parts) : P(parts[i]) /\ \A j \in (i + 1)..Len(parts) : ~P(parts[j])

\* the result r is the left-to-right merge of parts
MergeOf(r, parts) ==
  LET names == UNION {Names(PropsOf(parts[i])) : i \in 1..Len(parts)}
      req == UNION {Range(OrEmpty(parts[i].required)) : i \in 1..Len(parts)}
      HasItems(q) == q.items.kind # "none"
      HasAddl(q) == q.additionalProperties.kind # "none"
  IN /\ ~NonEmpty(r.allOf)
     /\ Names(PropsOf(r)) = names
     /\ \A n \in names :
          Lookup(PropsOf(r), n) =
            Lookup(PropsOf(parts[LastWith(parts, LAMBDA q : n \in Names(PropsOf(q)))]), n)
     /\ Range(OrEmpty(r.required)) = req
     /\ Len(OrEmpty(r.required)) = Cardinality(req)
     /\ IF \E i \in 1..Len(parts) : HasItems(parts[i])
        THEN r.items = parts[LastWith(parts, HasItems)].items
        ELSE r.items = NoItems
     /\ IF \E i \in 1..Len(parts) : HasAddl(parts[i])
        THEN r.additionalProperties = parts[LastWith(parts, HasAddl)].additionalProperties
        ELSE r.additionalProperties = NoAddl

ResolvedBranches(s) ==
  [i \in 1..Len(Get(s.allOf)) |-> resolveIn(schema, Get(s.allOf)[i]).s]
ResolvedOwn(s) == resolveIn(schema, [s EXCEPT !.allOf = None]).s

\* C7 as stated: the result is the merge of the branches
AllOfMergeOfBranches ==
  (resolved.ok /\ NonEmpty(schema.allOf))
    => MergeOf(resolved.s, ResolvedBranches(schema))

(***************************************************************************)
(* C7  allOf merge: the result of resolving a schema with a non-empty      *)
(* allOf has no non-empty allOf and is the left-to-right merge of the      *)
(* schema's own keywords followed by the resolved branches: properties     *)
(* united with the latest part winning a shared name, required united      *)
(* without duplicates, items and additionalProperties of the latest part   *)
(* that defines them.                                                      *)
(***************************************************************************)
AllOfMerge ==
  (resolved.ok /\ NonEmpty(schema.allOf))
    => MergeOf(resolved.s, <<ResolvedOwn(schema)>> \o ResolvedBranches(schema))

AllOfMergeWitness ==
  /\ resolved.ok
  /\ schema.allOf = Some(<<Props(<<Entry("a", Typed("string"))>>),
                           Required(<<"b">>, Props(<<Entry("b", Typed("string"))>>))>>)
  /\ schema.properties = None
  /\ Names(PropsOf(resolved.s)) = {"a", "b"}
  /\ resolved.s.required = Some(<<"b">>)

(***************************************************************************)
(* What a generate() run is held to                                        *)
(***************************************************************************)
Generated == gen # GenerationFailed("not run")

\* the resolved root of the run
ResolvedRoot == resolveIn(schema, schema).s

\* the types generateArrayBlock shares between primitive arrays
PrimitiveItemTypes ==
  {t \o "_item" : t \in {"string", "number", "integer", "boolean", "null", "array"}}

BranchesOf(s) ==
  IF NonEmpty(s.oneOf) THEN Get(s.oneOf)
  ELSE IF NonEmpty(s.anyOf) THEN Get(s.anyOf) ELSE <<>>

ItemSchemaOf(s) ==
  CASE s.items.kind = "one" -> s.items.s
    [] s.items.kind = "tuple" -> s.items.ss[1]
    [] OTHER -> Typed("string")

\* the union slots of an object schema: the type that holds the slot, the
\* slot's name, the path of the property and the branches, for unions at a
\* property and at the items of an array property, through nested objects
\* and object items
RECURSIVE UnionSlots(_,_)
UnionSlots(s, type) ==
  UNION {
    LET p == PropsOf(s)[i].schema
        path == type \o "_" \o PropsOf(s)[i].name
        slot == [holder |-> type, name |-> toUpperCase(PropsOf(s)[i].name), path |-> path]
    IN IF BranchesOf(p) # <<>>
       THEN {[slot |-> slot, branches |-> BranchesOf(p)]}
       ELSE IF p.type = "object" THEN UnionSlots(p, path)
       ELSE IF p.type = "array" /\ BranchesOf(ItemSchemaOf(p)) # <<>>
       THEN {[slot |-> slot, branches |-> BranchesOf(ItemSchemaOf(p))]}
       ELSE IF p.type = "array" /\ ItemSchemaOf(p).type = "object"
       THEN UnionSlots(ItemSchemaOf(p), path \o "_item")
       ELSE {}
    : i \in 1..Len(PropsOf(s))}

\* the accepted types of a slot of a generated block
SlotCheck(slot) ==
  LET args0 == Definition(gen.blocks, slot.holder).args0
  IN args0[CHOOSE i \in 1..Len(args0) : args0[i].name = slot.name].check

VariantsAt(path) == IF MapHas(gen.variants, path) THEN MapGet(gen.variants, path) ELSE <<>>

\* C6: for a property or array-item schema that is a oneOf/anyOf with n
\* branches, generate emits n distinct node types, one per branch, registers
\* exactly n variants under the property's path in branch order, each with
\* its branch's resolved schema, and the slot accepts exactly those n types;
\* with or without titles on the branches
UnionGeneration ==
  gen.ok =>
    \A u \in UnionSlots(ResolvedRoot, rootBlockName) :
      LET variants == VariantsAt(u.slot.path)
      IN /\ Len(variants) = Len(u.branches)
         /\ \A i \in 1..Len(variants) :
              /\ variants[i].schema = u.branches[i]
              /\ IsDefined(gen.blocks, variants[i].blockType)
         /\ \A i, j \in 1..Len(variants) :
              i # j => variants[i].blockType # variants[j].blockType
         /\ IsDefined(gen.blocks, u.slot.holder)
         /\ SlotCheck(u.slot) = [i \in 1..Len(variants) |-> variants[i].blockType]

\* C9: within one generate() run no two different object-shaped schema
\* locations are given the same node type id; only the primitive item types
\* are shared
TypeIdUniqueness ==
  gen.ok =>
    \A i, j \in 1..Len(gen.calls) :
      (/\ gen.calls[i].type = gen.calls[j].type
       /\ gen.calls[i].type \notin PrimitiveItemTypes)
      => gen.calls[i].loc = gen.calls[j].loc

\* C6 fails: an array of untitled oneOf branches gets one type for all of them
UnionGenerationBroken ==
  /\ gen.ok
  /\ \E u \in UnionSlots(ResolvedRoot, rootBlockName) :
       /\ Len(VariantsAt(u.slot.path)) = 2
       /\ VariantsAt(u.slot.path)[1].blockType = VariantsAt(u.slot.path)[2].blockType

(***************************************************************************)
(* Categories                                                              *)
(***************************************************************************)
\* the schema at a place of the resolved root
RECURSIVE SchemaAt(_,_)
SchemaAt(s, loc) ==
  IF loc = <<>> THEN s
  ELSE LET first == Head(loc)
           at == CASE first.step = "property" -> Lookup(PropsOf(s), first.name)
                   [] first.step = "item" -> ItemSchemaOf(s)
                   [] OTHER ->
                        BranchesOf(s)[CHOOSE k \in 1..Len(BranchesOf(s)) :
                                        ToString(k) = first.name]
       IN SchemaAt(at, Tail(loc))

\* the display name of the property a place ends in
NameAt(loc) ==
  OrElse(SchemaAt(ResolvedRoot, loc).title, humanize(loc[Len(loc)].name))

CategoryOf(type) == MapGet(gen.blockCategories, type)

\* the calls that generated a descriptor, the root's aside
GeneratedBeneath ==
  {i \in 1..Len(gen.calls) : gen.calls[i].outcome = "generated" /\ gen.calls[i].loc # <<>>}

\* every descriptor is listed once, under one category of the toolbox, the
\* one blockCategories records; the root under "Configuration"
ExactlyOneCategory ==
  /\ \A i \in 1..Len(gen.blocks) :
       /\ MapHas(gen.blockCategories, gen.blocks[i].type)
       /\ \E k \in 1..Len(gen.toolbox) :
            /\ gen.toolbox[k].name = CategoryOf(gen.blocks[i].type)
            /\ \A m \in 1..Len(gen.toolbox) :
                 Len(SelectSeq(gen.toolbox[m].contents,
                               LAMBDA t : t = gen.blocks[i].type))
                   = IF m = k THEN 1 ELSE 0
  /\ \A k, m \in 1..Len(gen.toolbox) : gen.toolbox[k].name = gen.toolbox[m].name => k = m
  /\ CategoryOf(rootBlockName) = <<"Configuration">>

\* C10 as specified: every generated type has exactly one category, the
\* root's is "Configuration", and every type generated beneath a first-level
\* property P has the category named after P
CategoryInheritance ==
  gen.ok =>
    /\ ExactlyOneCategory
    /\ \A i \in GeneratedBeneath :
         CategoryOf(gen.calls[i].type) = NameAt(<<gen.calls[i].loc[1]>>)

\* the property steps of a place after the first
LaterProperties(loc) == {k \in 2..Len(loc) : loc[k].step = "property"}

\* the category the generator gives the type generated at a place
CategoryAt(type, loc) ==
  LET P == SchemaAt(ResolvedRoot, <<loc[1]>>)
      later == LaterProperties(loc)
  IN IF type \in PrimitiveItemTypes THEN <<"Common">>
     ELSE IF BranchesOf(P) # <<>> \/ P.type # "array" THEN NameAt(<<loc[1]>>)
     ELSE IF later = {} THEN Definition(gen.blocks, type).title
     ELSE NameAt(SubSeq(loc, 1, CHOOSE k \in later : \A m \in later : k <= m))

\* C10: every generated type has exactly one category; the root's is
\* "Configuration"; a type generated beneath a first-level property P that
\* is an object or a oneOf/anyOf has the category named after P; when P is
\* an array its item and branch types are categorised by their own title
\* and the types beneath a property Q of such an item by Q's name; the
\* shared primitive item types are in "Common"
CategoryAssignment ==
  gen.ok =>
    /\ ExactlyOneCategory
    /\ \A i \in GeneratedBeneath :
         CategoryOf(gen.calls[i].type) = CategoryAt(gen.calls[i].type, gen.calls[i].loc)

\* a type two levels beneath an object property and a type beneath a
\* property of a root-level array item have both been generated
CategoryAssignmentWitness ==
  /\ gen.ok
  /\ \E i, j \in GeneratedBeneath :
       /\ Len(gen.calls[i].loc) >= 3
       /\ CategoryOf(gen.calls[i].type) = NameAt(<<gen.calls[i].loc[1]>>)
       /\ CategoryOf(gen.calls[i].type) # Definition(gen.blocks, gen.calls[i].type).title
       /\ SchemaAt(ResolvedRoot, <<gen.calls[j].loc[1]>>).type = "array"
       /\ LaterProperties(gen.calls[j].loc) # {}
       /\ CategoryOf(gen.calls[j].type) # NameAt(<<gen.calls[j].loc[1]>>)

(***************************************************************************)
(* The depth bound                                                         *)
(***************************************************************************)
ObjectCalls == {i \in 1..Len(gen.calls) : gen.calls[i].type \notin PrimitiveItemTypes}
TooDeep == {i \in ObjectCalls : gen.calls[i].outcome = "too deep"}

Beneath(loc, other) ==
  Len(other) > Len(loc) /\ SubSeq(other, 1, Len(loc)) = loc

\* some slot of a generated block accepts the type
AcceptedBySomeSlot(type) ==
  \E i \in 1..Len(gen.blocks) :
    \E k \in 1..Len(gen.blocks[i].args0) : type \in Range(gen.blocks[i].args0[k].check)

\* the levels of nesting a loaded configuration of Nested or NestedItems has
RECURSIVE Levels(_)
Levels(config) ==
  IF Member(config, "a") # Undefined THEN 1 + Levels(Member(config, "a"))
  ELSE IF Member(config, "items") # Undefined
  THEN 1 + Levels(Member(config, "items").a[1])
  ELSE 0

Matching(path, value) ==
  {i \in 1..Len(VariantsAt(path)) :
     /\ IsSome(VariantsAt(path)[i].discriminator)
     /\ value.k = "obj"
     /\ Get(VariantsAt(path)[i].discriminator).property \in DOMAIN value.o
     /\ value.o[Get(VariantsAt(path)[i].discriminator).property]
          = Get(VariantsAt(path)[i].discriminator).value}

\* C5: selectVariant returns the first registered variant whose
\* discriminator property the structured value holds with the
\* discriminator's value, and the first registered variant of the path in
\* every other case where the path has a variant
DiscriminatorSelection ==
  (selected # Undefined /\ VariantsAt(selected.path) # <<>>) =>
    LET matching == Matching(selected.path, selected.value)
    IN /\ IsSome(selected.variant)
       /\ \A i \in matching :
            (\A j \in matching : i <= j)
              => Get(selected.variant) = VariantsAt(selected.path)[i]
       /\ matching = {} => Get(selected.variant) = VariantsAt(selected.path)[1]

\* two variants match the value, neither is the first of the path, and the
\* earlier of them was returned
DiscriminatorSelectionWitness ==
  /\ selected # Undefined
  /\ \E i, j \in Matching(selected.path, selected.value) :
       /\ 1 < i /\ i < j
       /\ selected.variant = Some(VariantsAt(selected.path)[i])
       /\ VariantsAt(selected.path)[i] # VariantsAt(selected.path)[j]

(***************************************************************************)
(* Round trips                                                             *)
(***************************************************************************)
RECURSIVE ContainsUnion(_)
ContainsUnion(s) ==
  \/ NonEmpty(s.oneOf) \/ NonEmpty(s.anyOf)
  \/ \E i \in 1..Len(PropsOf(s)) : ContainsUnion(PropsOf(s)[i].schema)
  \/ (s.items.kind = "one" /\ ContainsUnion(s.items.s))
  \/ (s.items.kind = "tuple" /\ \E i \in 1..Len(s.items.ss) : ContainsUnion(s.items.ss[i]))
  \/ (s.additionalProperties.kind = "schema" /\ ContainsUnion(s.additionalProperties.s))

RoundTripped == gen.ok /\ loaded # Undefined /\ extracted # Undefined

\* C1: for a schema without oneOf/anyOf and a value conforming to it,
\* extracting with the default options what load populated returns the value
RoundTrip ==
  (RoundTripped /\ ~ContainsUnion(ResolvedRoot)) => extracted = loaded

\* C1 fails: an absent boolean comes back as false
RoundTripBroken ==
  /\ RoundTripped
  /\ ~ContainsUnion(ResolvedRoot)
  /\ Member(loaded, "flag") = Undefined
  /\ Member(extracted, "flag") = Bool(FALSE)

ItemsOfKindB == Obj([n \in {"items"} |-> Arr(<<Obj([m \in {"kind"} |-> Str("b")])>>)])

\* C2: in the scenario, populating with {items:[{kind:"b"}]} creates exactly
\* one item node, of the B variant's type, and extracting yields
\* {items:[{kind:"b"}]}
DiscriminatedRoundTrip ==
  (RoundTripped /\ schema \in {scenarioSchema, typedScenarioSchema} /\ loaded = ItemsOfKindB) =>
    /\ Len(graph.blocks) = 2
    /\ graph.blocks[2].type = VariantsAt("config_root_items")[2].blockType
    /\ getInputTargetBlock(graph, 1, "ITEMS") = 2
    /\ extracted = ItemsOfKindB

\* C2 fails: the B node is there, the extracted items are not
DiscriminatedRoundTripBroken ==
  /\ RoundTripped
  /\ schema = scenarioSchema
  /\ loaded = ItemsOfKindB
  /\ Len(graph.blocks) = 2
  /\ graph.blocks[2].type = "config_root_items_b"
  /\ extracted = Obj([n \in {"items"} |-> Arr(<<>>)])

(***************************************************************************)
(* Categories of the properties of array items                             *)
(***************************************************************************)
\* the places <<P, item, Q>>: P a root-level array property whose items are
\* objects, Q an object-typed or union-typed property of the item
ItemObjectProperties ==
  {<<[step |-> "property", name |-> P], [step |-> "item", name |-> ""],
     [step |-> "property", name |-> Q]>> :
     <<P, Q>> \in
       {pq \in Names(PropsOf(ResolvedRoot)) \X
                 UNION {Names(PropsOf(ItemSchemaOf(PropsOf(ResolvedRoot)[i].schema))) :
                          i \in 1..Len(PropsOf(ResolvedRoot))} :
          LET p == Lookup(PropsOf(ResolvedRoot), pq[1])
          IN /\ BranchesOf(p) = <<>>
             /\ p.enum = None
             /\ p.type = "array"
             /\ BranchesOf(ItemSchemaOf(p)) = <<>>
             /\ ItemSchemaOf(p).type = "object"
             /\ pq[2] \in Names(PropsOf(ItemSchemaOf(p)))
             /\ LET q == Lookup(PropsOf(ItemSchemaOf(p)), pq[2])
                IN BranchesOf(q) # <<>> \/ (q.type = "object" /\ q.enum = None)}}

\* the node types generateObjectBlock was called for at a property: the
\* object's own, or one for each branch
TypesFor(loc) ==
  {gen.calls[i].type :
     i \in {j \in 1..Len(gen.calls) :
              \/ gen.calls[j].loc = loc
              \/ /\ Len(gen.calls[j].loc) = Len(loc) + 1
                 /\ SubSeq(gen.calls[j].loc, 1, Len(loc)) = loc
                 /\ gen.calls[j].loc[Len(loc) + 1].step = "branch"}}

\* the node types the toolbox lists under a category name
InCategory(name) ==
  UNION {Range(gen.toolbox[k].contents) :
           k \in {m \in 1..Len(gen.toolbox) : gen.toolbox[m].name = name}}

HasCategory(name) == \E k \in 1..Len(gen.toolbox) : gen.toolbox[k].name = name

\* the property has its category, holding its node types
CategorisedByName(loc) ==
  /\ HasCategory(NameAt(loc))
  /\ TypesFor(loc) # {}
  /\ TypesFor(loc) \subseteq InCategory(NameAt(loc))

NestingOf(loc) == Cardinality({k \in 1..Len(loc) : loc[k].step = "property"})

\* console.warn(`Max depth exceeded for block: ${blockName}`) was written
WarnedTooDeep(type) == <<"Max depth exceeded for block", type>> \in Range(gen.warnings)

\* C12: with maxDepth = N, the object at every place nested 0 to N deep has
\* a descriptor; the object at a place nested N+1 deep has none, a
\* diagnostic names it and no place beneath it is visited; and generate
\* returns a result under N exactly when it does under the default limit
DepthBoundary ==
  Generated =>
    /\ gen.ok <=> generate(schema, DefaultMaxDepth).ok
    /\ gen.ok =>
         \A i \in ObjectCalls :
           /\ gen.calls[i].depth = NestingOf(gen.calls[i].loc)
           /\ NestingOf(gen.calls[i].loc) <= maxDepth + 1
           /\ NestingOf(gen.calls[i].loc) <= maxDepth =>
                /\ gen.calls[i].outcome # "too deep"
                /\ IsDefined(gen.blocks, gen.calls[i].type)
                /\ ~WarnedTooDeep(gen.calls[i].type)
           /\ NestingOf(gen.calls[i].loc) = maxDepth + 1 =>
                /\ gen.calls[i].outcome = "too deep"
                /\ ~IsDefined(gen.blocks, gen.calls[i].type)
                /\ WarnedTooDeep(gen.calls[i].type)
                /\ \A j \in 1..Len(gen.calls) : ~Beneath(gen.calls[i].loc, gen.calls[j].loc)

\* a run under a small limit N that generated an object N deep and cut one
\* at N+1, for objects beneath properties and beneath array items
DepthBoundaryWitness ==
  /\ gen.ok
  /\ maxDepth < NestingDepth
  /\ schema \in {Nested(NestingDepth), NestedItems(NestingDepth)}
  /\ \E i, j \in ObjectCalls :
       /\ gen.calls[i].depth = maxDepth
       /\ gen.calls[i].outcome = "generated"
       /\ gen.calls[j].depth = maxDepth + 1
       /\ gen.calls[j].outcome = "too deep"
       /\ Len(gen.blocks) = maxDepth + 1

(***************************************************************************)
(* The shape of the root                                                   *)
(***************************************************************************)
\* the resolver's result for the document
ResolutionOfRoot == resolveIn(schema, schema)

\* C18: when the resolved root has a type that is not "object", generate
\* fails with the shape error and returns nothing; when its type is "object"
\* or absent, generate returns a result whose rootBlockType is the
\* configured root name, the type of a generated descriptor
RootShape ==
  (Generated /\ ResolutionOfRoot.ok) =>
    IF ResolutionOfRoot.s.type \notin {"object", Undef}
    THEN /\ ~gen.ok
         /\ gen.err = "shape"
         /\ gen.blocks = <<>>
         /\ gen.rootBlockType = ""
    ELSE /\ gen.ok
         /\ gen.rootBlockType = rootBlockName
         /\ IsDefined(gen.blocks, rootBlockName)
         /\ gen.calls[Len(gen.calls)].type = rootBlockName
         /\ gen.calls[Len(gen.calls)].outcome = "generated"

\* a root that resolves, through its reference, to a string was refused
RootShapeWitness ==
  /\ Generated
  /\ schema.ref # Undef
  /\ ResolutionOfRoot.ok
  /\ ResolutionOfRoot.s.type = "string"
  /\ gen.err = "shape"

(***************************************************************************)
(* Pointers that do not resolve                                            *)
(***************************************************************************)
\* the pointer starts with "#/", its walk from the root document does not
\* pass through a value that is not an object, and it ends at an object
ValidLocalPointer(root, p) ==
  /\ p \in DOMAIN PointerSegments
  /\ Walk(AtSchema(root), PointerSegments[p]).at \in {"schema", "map"}

\* the pointers resolve comes to, starting from the document
PointersReached == ReachableFrom(schema, RefsIn(schema))

\* a schema without the empty properties and definitions maps a merge adds
WithoutEmptyMaps(s) ==
  [s EXCEPT !.properties = IF @ = Some(<<>>) THEN None ELSE @,
            !.definitions = IF @ = Some(<<>>) THEN None ELSE @]

\* the properties of the document that are a $ref and nothing else
ReferenceProperties ==
  {i \in 1..Len(PropsOf(schema)) :
     /\ PropsOf(schema)[i].schema.ref # Undef
     /\ PropsOf(schema)[i].schema = Ref(PropsOf(schema)[i].schema.ref)}

\* C19: when some pointer resolve comes to is not a valid local pointer
\* (and none leads back into itself), resolve fails with the pointer error
\* and returns no schema; it fails so only then; and when resolve returns,
\* a property that is a reference holds the resolved content of the node
\* its pointer addresses
PointerFailure ==
  resolved # NotRun =>
    /\ ((\E p \in PointersReached : ~ValidLocalPointer(schema, p))
          /\ ~Revisits(schema, schema))
         => (~resolved.ok /\ resolved.err = "pointer" /\ resolved.s = JSONSchema)
    /\ resolved.err = "pointer" => \E p \in PointersReached : ~ValidLocalPointer(schema, p)
    /\ resolved.ok =>
         \A i \in ReferenceProperties :
           WithoutEmptyMaps(PropsOf(resolved.s)[i].schema) =
             WithoutEmptyMaps(
               resolveIn(schema, resolvePointer(schema, PropsOf(schema)[i].schema.ref).s).s)

\* a pointer that ends at a string has failed
PointerFailureWitness ==
  /\ resolved.err = "pointer"
  /\ \E p \in PointersReached :
       /\ p \in DOMAIN PointerSegments
       /\ Walk(AtSchema(schema), PointerSegments[p]).at = "scalar"

(***************************************************************************)
(* Fully resolved output                                                   *)
(***************************************************************************)
\* list holds, branch for branch and in order, the resolutions of source
BranchesResolved(list, source) ==
  /\ Len(list) = Len(source)
  /\ \A i \in 1..Len(source) :
       LET r == resolveIn(schema, source[i])
       IN r.ok /\ list[i] = r.s

KeptFrom(list, sources) == \E source \in sources : BranchesResolved(list, source)

OneOfLists(nodes) == {Get(n.oneOf) : n \in {m \in nodes : IsSome(m.oneOf)}}
AnyOfLists(nodes) == {Get(n.anyOf) : n \in {m \in nodes : IsSome(m.anyOf)}}

Composed(s) == s.ref # Undef \/ NonEmpty(s.allOf)

UnionsKept(result, written) ==
  /\ \A list \in OneOfLists(result) : KeptFrom(list, OneOfLists(written))
  /\ \A list \in AnyOfLists(result) : KeptFrom(list, AnyOfLists(written))
  /\ ~Composed(schema) =>
       /\ IsSome(schema.oneOf) = IsSome(resolved.s.oneOf)
       /\ IsSome(schema.anyOf) = IsSome(resolved.s.anyOf)
       /\ IsSome(schema.oneOf) =>
            BranchesResolved(Get(resolved.s.oneOf), Get(schema.oneOf))
       /\ IsSome(schema.anyOf) =>
            BranchesResolved(Get(resolved.s.anyOf), Get(schema.anyOf))

\* C20: when resolve returns, no node of the result, the top level or one
\* nested under properties, items, additionalProperties, oneOf or anyOf,
\* carries a $ref or a non-empty allOf; every oneOf and anyOf list of the
\* result is a list of the document with as many branches in the same order,
\* each branch being the resolution of the document's branch.
FullyResolved ==
  resolved.ok =>
    /\ \A n \in NodesOf(resolved.s) : ~Composed(n)
    /\ UnionsKept(NodesOf(resolved.s), WrittenIn(schema))

\* a document whose unions hold references and compositions was resolved,
\* and the result keeps a union of several branches
FullyResolvedWitness ==
  /\ resolved.ok
  /\ \E w \in WrittenIn(schema) :
       /\ w \notin EntrySchemasOf(schema.definitions)
       /\ \E b \in SchemasOf(w.oneOf) \cup SchemasOf(w.anyOf) : Composed(b)
  /\ \E n \in NodesOf(resolved.s) : IsSome(n.oneOf) /\ Len(Get(n.oneOf)) >= 2

(***************************************************************************)
(* Root selection in extraction                                            *)
(***************************************************************************)
MissingRoot == "No root configuration block found in workspace"
BuilderRefused == {WorkspaceNotProvided, MustCallGenerateBlocksFirst}

\* the block as newBlock returns it: initial fields, nothing attached
Fresh(w, i) ==
  LET def == Definition(host.defined, w.blocks[i].type)
  IN [w.blocks[i] EXCEPT !.fields = InstanceFields(def.args0),
                         !.inputs = InstanceInputs(def.args0), !.next = 0]

\* the workspace with the given blocks as they were when created
Blanked(w, others) ==
  [w EXCEPT !.blocks = [i \in 1..Len(w.blocks) |->
                          IF i \in others THEN Fresh(w, i) ELSE w.blocks[i]]]

RootSelectionOf(rootBlocks) ==
  /\ call.error = MissingRoot <=> rootBlocks = <<>>
  /\ rootBlocks = <<>> => extracted = Undefined
  /\ rootBlocks # <<>> =>
       /\ call.error = "none"
       /\ call.warned <=> Len(rootBlocks) > 1
       /\ extracted = blockToConfig(gen, call.options, graph, rootBlocks[1], schema,
                                    gen.rootBlockType)
       /\ extracted = blockToConfig(gen, call.options,
                                    Blanked(graph, Range(Tail(rootBlocks))),
                                    rootBlocks[1], schema, gen.rootBlockType)

\* C13: generate fails with the missing-root error and no value exactly
\* when the workspace holds no block of the root type; otherwise it returns
\* the extraction of the first block of that type, whatever the other root
\* blocks hold, and logs a diagnostic exactly when there are several.
RootSelection ==
  (call.op = "generateConfig" /\ call.error \notin BuilderRefused) =>
    RootSelectionOf(getBlocksByType(graph, gen.rootBlockType))

\* two root blocks with different names: the first one's name is returned
RootSelectionWitness ==
  /\ call.op = "generateConfig"
  /\ call.error = "none"
  /\ call.warned
  /\ schema = serviceSchema
  /\ Len(getBlocksByType(graph, gen.rootBlockType)) = 2
  /\ getFieldValue(graph, 1, "NAME") = Str("7")
  /\ getFieldValue(graph, 2, "NAME") = Str("svc")
  /\ extracted.o["name"] = Str("7")

(***************************************************************************)
(* Missing-field policy                                                    *)
(***************************************************************************)
Absent(value) == value \in {Null, Undefined}
Holds(config, propName, value) ==
  propName \in DOMAIN config.o /\ config.o[propName] = value

PolicyAt(options, propSchema, value, config, propName) ==
  /\ ~Absent(value) => Holds(config, propName, value)
  /\ Absent(value) =>
       /\ (~options.includeDefaults /\ ~options.includeNulls) =>
            propName \notin DOMAIN config.o
       /\ (options.includeDefaults /\ IsSome(propSchema.default)) =>
            Holds(config, propName, Get(propSchema.default))
       /\ (options.includeNulls /\ ~(options.includeDefaults /\ IsSome(propSchema.default))) =>
            Holds(config, propName, Null)
       /\ (~options.includeNulls /\ ~IsSome(propSchema.default)) =>
            propName \notin DOMAIN config.o

RECURSIVE PolicyHolds(_,_,_,_,_)
PolicyBeneath(options, block, propSchema, propName, config) ==
  LET nestedBlock == getInputTargetBlock(graph, block, toUpperCase(propName))
  IN (propSchema.type = "object" /\ ~NonEmpty(propSchema.oneOf)
        /\ ~NonEmpty(propSchema.anyOf) /\ nestedBlock # 0) =>
       PolicyHolds(options, nestedBlock, propSchema, graph.blocks[nestedBlock].type,
                   config.o[propName])

\* the policy at every property of the block's schema, and beneath the
\* object-typed ones
PolicyHolds(options, block, s, path, config) ==
  LET type == graph.blocks[block].type
      effectiveSchema == IF MapHas(gen.blockSchemaMap, type)
                         THEN MapGet(gen.blockSchemaMap, type) ELSE s
  IN \A i \in 1..Len(PropsOf(effectiveSchema)) :
       LET propName == PropsOf(effectiveSchema)[i].name
           propSchema == PropsOf(effectiveSchema)[i].schema
       IN /\ PolicyAt(options, propSchema,
                      extractValue(gen, options, graph, block, toUpperCase(propName),
                                   propSchema, path \o "_" \o propName),
                      config, propName)
          /\ PolicyBeneath(options, block, propSchema, propName, config)

\* C14: in the value generate returns, a property without an extracted
\* value is left out when neither option is set, holds the declared default
\* when includeDefaults is set and a default is declared, and holds null
\* when includeNulls is set and no default applies; a property with an
\* extracted value holds that value.
MissingFieldPolicy ==
  (call.op = "generateConfig" /\ call.error = "none") =>
    PolicyHolds(call.options, getBlocksByType(graph, gen.rootBlockType)[1], schema,
                gen.rootBlockType, extracted)

\* both options set: a blank name comes back as its default, a blank level
\* as null, an empty child slot as null, and a typed-in host stays
MissingFieldPolicyWitness ==
  /\ call.op = "generateConfig"
  /\ call.error = "none"
  /\ call.options = [includeDefaults |-> TRUE, includeNulls |-> TRUE]
  /\ schema = serviceSchema
  /\ getFieldValue(graph, getBlocksByType(graph, gen.rootBlockType)[1], "NAME") = Str("")
  /\ extracted.o["name"] = Str("svc")
  /\ extracted.o["level"] = Null
  /\ extracted.o["flag"] = Bool(FALSE)

(***************************************************************************)
(* Population resets the graph                                             *)
(***************************************************************************)
\* block i hangs beneath the root block through slots and sibling links
RECURSIVE Attached(_,_,_,_)
Attached(w, i, root, fuel) ==
  \/ i = root
  \/ /\ fuel > 0
     /\ w.blocks[i].parent # 0
     /\ Attached(w, w.blocks[i].parent, root, fuel - 1)

OneRootAbove(w, roots) ==
  /\ Len(roots) = 1
  /\ \A i \in 1..Len(w.blocks) : Attached(w, i, roots[1], Len(w.blocks))

\* C15: load removes what the workspace held before it creates anything:
\* the workspace afterwards is the one load gives on an empty workspace,
\* and when load completes it holds exactly one block of the root type
\* with every other block attached beneath it.
PopulationResets ==
  (call.op = "loadConfig" /\ call.error \notin BuilderRefused \cup {InvalidConfiguration}) =>
    /\ graph.blocks = load(Registered, EmptyWorkspace, schema, loaded).blocks
    /\ call.error = "none" =>
         OneRootAbove(graph, getBlocksByType(graph, gen.rootBlockType))

\* a workspace that held two blocks of the user's is loaded with a service
\* and its child
PopulationResetsWitness ==
  /\ call.op = "loadConfig"
  /\ call.error = "none"
  /\ call.before = 2
  /\ schema = serviceSchema
  /\ Len(graph.blocks) = 2
  /\ graph.blocks[2].parent = 1
  /\ getFieldValue(graph, 2, "HOST") = Str("y")

(***************************************************************************)
(* Validation gate                                                         *)
(***************************************************************************)
\* C16: loadConfig with a configuration that fails validation against the
\* schema throws, with the validation error once a workspace and a loader
\* exist, and leaves the workspace as it was.
ValidationGate ==
  [][(call'.op = "loadConfig" /\ ~Validates(schema, schema, loaded', ValidationFuel)) =>
       /\ call'.error # "none"
       /\ (builder.workspace # 0 /\ builder.configLoader # 0) =>
            call'.error = InvalidConfiguration
       /\ graph' = graph]_vars

\* an invalid configuration was refused while the workspace held blocks
ValidationGateWitness ==
  /\ call.op = "loadConfig"
  /\ call.error = InvalidConfiguration
  /\ call.before = 2
  /\ Len(graph.blocks) = 2
  /\ loaded.k = "obj"

(***************************************************************************)
(* Builder call order                                                      *)
(***************************************************************************)
AfterGenerateBlocks ==
  {"registerBlocks", "updateToolbox", "generateConfig", "formatConfig", "loadConfig"}
WithWorkspace == {"generateConfig", "loadConfig", "updateToolbox", "clearWorkspace"}

\* C17: registerBlocks, updateToolbox, generateConfig, formatConfig and
\* loadConfig throw and change neither the builder nor the workspace while
\* no generateBlocks call has returned a result; generateConfig, loadConfig,
\* updateToolbox and clearWorkspace do while no workspace is supplied.
CallOrder ==
  [][((call'.op \in AfterGenerateBlocks /\ ~gen.ok)
        \/ (call'.op \in WithWorkspace /\ builder.workspace = 0)) =>
       /\ call'.error \in BuilderRefused
       /\ UNCHANGED <<gen, builder, host, graph>>]_vars

\* generateBlocks threw for a root that is no object, and registerBlocks
\* was refused after it
CallOrderWitness ==
  /\ schema = Typed("string")
  /\ call.op = "registerBlocks"
  /\ call.error = MustCallGenerateBlocksFirst
  /\ ~gen.ok

(***************************************************************************)
(* No false cycle reports                                                  *)
(***************************************************************************)
\* the pointers two different properties, branches or compositions of s
\* refer to, each directly
PropertySchemas(s) == [i \in 1..Len(PropsOf(s)) |-> PropsOf(s)[i].schema]
ReferredTwice(s) ==
  LET lists == {PropertySchemas(s), OrEmpty(s.oneOf), OrEmpty(s.anyOf), OrEmpty(s.allOf)}
  IN {p \in RefsIn(s) :
        \E list \in lists : \E i, j \in 1..Len(list) :
          i # j /\ list[i].ref = p /\ list[j].ref = p}

\* C30: resolve reports a circular reference only when a pointer reachable
\* from the document leads back to itself; a document without such a
\* pointer, all of whose pointers are valid, resolves, however often it
\* refers to one definition.
NoFalseCycles ==
  /\ resolved.err = "circular" => Revisits(schema, schema)
  /\ (resolved # NotRun /\ ~Revisits(schema, schema) /\ PointersValid(schema, schema))
       => resolved.ok

\* two sibling properties refer to one definition, which refers on to
\* another, and the document resolves
NoFalseCyclesWitness ==
  /\ resolved.ok
  /\ \E p \in ReferredTwice(schema) : RefersTo(schema, p) # {}
  /\ IsSome(schema.properties)

(***************************************************************************)
(* Array population order                                                  *)
(***************************************************************************)
\* the blocks met from head along the next links, head first
RECURSIVE Chain(_,_,_)
Chain(w, head, fuel) ==
  IF head = 0 \/ fuel = 0 THEN <<>>
  ELSE <<head>> \o Chain(w, getNextBlock(w, head), fuel - 1)

SlotChain(w, block, fieldName) ==
  Chain(w, getInputTargetBlock(w, block, fieldName), Len(w.blocks))

\* the properties of the root block's schema
RootProperties ==
  IF MapHas(gen.blockSchemaMap, gen.rootBlockType)
  THEN PropsOf(MapGet(gen.blockSchemaMap, gen.rootBlockType)) ELSE <<>>

\* the root properties that are arrays and were loaded with at least one
\* item into a slot that names an item type
LoadedArrays ==
  {i \in 1..Len(RootProperties) :
     /\ RootProperties[i].schema.type = "array"
     /\ ~NonEmpty(RootProperties[i].schema.oneOf)
     /\ ~NonEmpty(RootProperties[i].schema.anyOf)
     /\ Member(loaded, RootProperties[i].name).k = "arr"
     /\ Member(loaded, RootProperties[i].name).a # <<>>
     /\ hasInput(graph, 1, toUpperCase(RootProperties[i].name))
     /\ getCheck(graph, 1, toUpperCase(RootProperties[i].name)) # <<>>}

ItemNodes(w, check) == {b \in 1..Len(w.blocks) : w.blocks[b].type \in Range(check)}

Ascending(chain) == \A i, j \in 1..Len(chain) : i < j => chain[i] < chain[j]

\* as many values as items, the scalar ones equal to the items
ReturnsInOrder(value, items) ==
  /\ value.k = "arr"
  /\ Len(value.a) = Len(items)
  /\ \A j \in 1..Len(items) : items[j].k # "obj" => value.a[j] = items[j]

PopulatedInOrder(name, items) ==
  /\ Len(SlotChain(graph, 1, toUpperCase(name))) = Len(items)
  /\ Ascending(SlotChain(graph, 1, toUpperCase(name)))
  /\ \A b \in ItemNodes(graph, getCheck(graph, 1, toUpperCase(name))) :
       graph.blocks[b].parent # 0
  /\ extracted # Undefined => ReturnsInOrder(Member(extracted, name), items)

\* C21: for an array property loaded with k >= 1 items, the chain from
\* the slot's head along the next links visits k blocks in the order they
\* were created, no item block is left unattached, and extraction returns
\* k values in the order of the items.
ArrayPopulationOrder ==
  (loaded # Undefined /\ graph.failed = "none") =>
    \A i \in LoadedArrays :
      PopulatedInOrder(RootProperties[i].name, Member(loaded, RootProperties[i].name).a)

(***************************************************************************)
(* Numeric coercion                                                        *)
(***************************************************************************)
NumericProperties ==
  {i \in 1..Len(RootProperties) :
     /\ RootProperties[i].schema.type \in {"number", "integer"}
     /\ ~NonEmpty(RootProperties[i].schema.oneOf)
     /\ ~NonEmpty(RootProperties[i].schema.anyOf)}

\* what the extracted object holds for a numeric property is a number, and
\* it holds nothing when the field's raw value is blank
CoercedAt(name) ==
  /\ name \in DOMAIN extracted.o => extracted.o[name].k = "num"
  /\ IsBlank(getFieldValue(graph, 1, toUpperCase(name))) => name \notin DOMAIN extracted.o

\* C22: extraction of a number or integer field leaves the property out
\* when the raw value is blank and otherwise returns a number, never a
\* value of another kind.
NumericCoercion ==
  (extracted # Undefined /\ loaded # Undefined) =>
    \A i \in NumericProperties : CoercedAt(RootProperties[i].name)

(***************************************************************************)
(* Scalar value in a union slot                                            *)
(***************************************************************************)
IsScalar(value) == value.k \in {"str", "num", "bool"}

\* the root properties that are unions and were loaded with a scalar
ScalarUnions ==
  {i \in 1..Len(RootProperties) :
     /\ NonEmpty(RootProperties[i].schema.oneOf) \/ NonEmpty(RootProperties[i].schema.anyOf)
     /\ IsScalar(Member(loaded, RootProperties[i].name))}

\* the raw value a field shows for a scalar
RawOf(value) ==
  CASE value.k = "bool" -> Str(IF value.b THEN "TRUE" ELSE "FALSE")
    [] OTHER -> value

HoldsScalar(w, block, value) ==
  /\ block # 0
  /\ MapKeys(w.blocks[block].fields) = {"VALUE"}
  /\ getFieldValue(w, block, "VALUE") \in {RawOf(value), Str(String(value))}

\* C23: after a union property is loaded with a scalar, its slot holds
\* exactly one block, the block has VALUE as its only field, and the field
\* holds the value.
ScalarUnionValue ==
  (loaded # Undefined /\ graph.failed = "none") =>
    \A i \in ScalarUnions :
      /\ Len(SlotChain(graph, 1, toUpperCase(RootProperties[i].name))) = 1
      /\ HoldsScalar(graph, getInputTargetBlock(graph, 1, toUpperCase(RootProperties[i].name)),
                     Member(loaded, RootProperties[i].name))

(***************************************************************************)
(* Discriminator extraction                                                *)
(***************************************************************************)
RegisteredVariants == UNION {Range(gen.variants[i].value) : i \in 1..Len(gen.variants)}

ConstAt(s, i) == IsSome(PropsOf(s)[i].schema.const)

\* the declared properties of a variant's schema that fix a constant
ConstProperties(variant) == {i \in 1..Len(PropsOf(variant.schema)) : ConstAt(variant.schema, i)}

FirstConstRecorded(variant) ==
  IF ConstProperties(variant) = {} THEN variant.discriminator = None
  ELSE \E i \in ConstProperties(variant) :
         /\ \A j \in ConstProperties(variant) : i <= j
         /\ variant.discriminator =
              Some([property |-> PropsOf(variant.schema)[i].name,
                    value |-> Get(PropsOf(variant.schema)[i].schema.const)])

\* the Azure variant of the workload document: the base declares type as a
\* string, the second allOf branch as the constant "azure"
AzureVariants ==
  IF schema = workloadSchema /\ MapHas(gen.variants, "config_root_workloads_item_incidents")
  THEN {MapGet(gen.variants, "config_root_workloads_item_incidents")[1]}
  ELSE {}

\* C24: every registered variant records the first property, in the
\* declaration order of its resolved schema, that fixes a constant, with
\* that constant; a variant without one records no discriminator; the
\* variant whose allOf branch redefines type as "azure" records type and
\* "azure".
DiscriminatorExtraction ==
  /\ \A variant \in RegisteredVariants : FirstConstRecorded(variant)
  /\ \A variant \in AzureVariants :
       variant.discriminator = Some([property |-> "type", value |-> Str("azure")])

DiscriminatorExtractionWitness ==
  \E variant \in AzureVariants :
    /\ PropsOf(variant.schema)[1].name = "type"
    /\ PropsOf(variant.schema)[2].name = "serverId"
    /\ PropsOf(variant.schema)[3].name = "projectName"

(***************************************************************************)
(* Soft failure in population                                              *)
(***************************************************************************)
\* no variant applies to the value a slot is loaded with
NoVariantFor(path, value) ==
  IF value.k = "arr"
  THEN \A i \in 1..Len(value.a) : selectVariant(gen.variants, path, value.a[i]) = None
  ELSE selectVariant(gen.variants, path, value) = None

\* the root properties loaded with an array, object or union value into a
\* slot that names no type and has no variant for the value
Undetermined ==
  {i \in 1..Len(RootProperties) :
     /\ hasInput(graph, 1, toUpperCase(RootProperties[i].name))
     /\ getCheck(graph, 1, toUpperCase(RootProperties[i].name)) = <<>>
     /\ Member(loaded, RootProperties[i].name) \notin {Undefined, Null, Arr(<<>>)}
     /\ NoVariantFor(gen.rootBlockType \o "_" \o RootProperties[i].name,
                     Member(loaded, RootProperties[i].name))}

Without(config, propName) == Obj([n \in DOMAIN config.o \ {propName} |-> config.o[n]])

Diagnosed(w, fieldName) ==
  \E k \in 1..Len(w.warnings) :
    /\ w.warnings[k][2] = fieldName
    /\ w.warnings[k][1] \in {"No block type found for array field",
                             "No block type found for object field",
                             "No block type found for union field"}

\* C25: a property whose slot names no type and has no variant for the
\* value gets no block and a diagnostic; the load does not fail, and the
\* rest of the workspace is what loading the configuration without that
\* property builds.
SoftFailure ==
  (loaded # Undefined /\ loaded.k = "obj") =>
    \A i \in Undetermined :
      /\ graph.failed = "none"
      /\ getInputTargetBlock(graph, 1, toUpperCase(RootProperties[i].name)) = 0
      /\ Diagnosed(graph, toUpperCase(RootProperties[i].name))
      /\ graph.blocks =
           load(gen, EmptyWorkspace, schema, Without(loaded, RootProperties[i].name)).blocks

SoftFailureWitness ==
  /\ loaded # Undefined
  /\ loaded.k = "obj"
  /\ \E i \in Undetermined :
       /\ i > 1
       /\ i < Len(RootProperties)
       /\ Member(loaded, RootProperties[1].name) = Str("x")
       /\ Member(loaded, RootProperties[Len(RootProperties)].name) = Bool(TRUE)
       /\ getFieldValue(graph, 1, "NAME") = Str("x")
       /\ getFieldValue(graph, 1, "FLAG") = Str("TRUE")

(***************************************************************************)
(* Depth accounting                                                        *)
(***************************************************************************)
ObjectShapedSchema(s) ==
  /\ s.type = "object" \/ IsSome(s.properties)
  /\ ~NonEmpty(s.oneOf)
  /\ ~NonEmpty(s.anyOf)

\* the place is an object: a nested object property, an object array item
\* or an object branch
ObjectPlace(loc) == ObjectShapedSchema(SchemaAt(ResolvedRoot, loc))

\* the object nesting levels on the way to a place
ObjectLevels(loc) == Cardinality({k \in 1..Len(loc) : ObjectPlace(SubSeq(loc, 1, k))})

\* C26: the depth a place is generated with is the number of object
\* nesting levels on the way to it, and nothing but an object is cut by
\* the depth bound.
DepthAccounting ==
  gen.ok =>
    \A i \in ObjectCalls :
      /\ gen.calls[i].depth = ObjectLevels(gen.calls[i].loc)
      /\ gen.calls[i].outcome = "too deep" => ObjectPlace(gen.calls[i].loc)

(***************************************************************************)
(* Referential integrity of the generation result                          *)
(***************************************************************************)
\* the type ids the slots of the descriptors accept
ChecksOf(args0) == UNION {Range(args0[k].check) : k \in 1..Len(args0)}

SlotTypes == UNION {ChecksOf(gen.blocks[i].args0) : i \in 1..Len(gen.blocks)}

VariantTypes == {variant.blockType : variant \in RegisteredVariants}

ReferredTypes == SlotTypes \cup VariantTypes \cup MapKeys(gen.blockSchemaMap)

\* C27: every type id a slot accepts, a variant names or blockSchemaMap
\* has as a key is the type of a descriptor of the result, under every
\* depth limit.
ReferentialIntegrity ==
  gen.ok => \A type \in ReferredTypes : IsDefined(gen.blocks, type)

(***************************************************************************)
(* Sibling chains of mixed variants                                        *)
(***************************************************************************)
\* the types the slot of a root property accepts
RootSlotCheck(name) ==
  LET args0 == Definition(gen.blocks, gen.rootBlockType).args0
      named == {k \in 1..Len(args0) : args0[k].name = toUpperCase(name)}
  IN UNION {Range(args0[k].check) : k \in named}

\* the root array properties whose slot accepts several types, all defined
VariantArrays ==
  {i \in 1..Len(RootProperties) :
     /\ RootProperties[i].schema.type = "array"
     /\ Cardinality(RootSlotCheck(RootProperties[i].name)) >= 2
     /\ \A type \in RootSlotCheck(RootProperties[i].name) : IsDefined(gen.blocks, type)}

\* a block of the type can be followed by a block of the other type
CanFollow(type, other) ==
  /\ IsSome(Definition(gen.blocks, type).nextStatement)
  /\ Compatible(<<Get(Definition(gen.blocks, type).nextStatement)>>,
                Definition(gen.blocks, other).previousStatement)

AllItemsKept(name, items) ==
  /\ Len(SlotChain(graph, 1, toUpperCase(name))) = Len(items)
  /\ extracted # Undefined =>
       /\ Member(extracted, name).k = "arr"
       /\ Len(Member(extracted, name).a) = Len(items)

\* C28: for an array slot that accepts several variant types, a block of
\* each accepted type can be followed by a block of every accepted type; a
\* list loaded into the slot is one chain of all its items, and extraction
\* returns as many.
MixedVariantChains ==
  (gen.ok /\ IsDefined(gen.blocks, gen.rootBlockType)) =>
    \A i \in VariantArrays :
      /\ \A type, other \in RootSlotCheck(RootProperties[i].name) : CanFollow(type, other)
      /\ (loaded # Undefined /\ graph.failed = "none"
            /\ Member(loaded, RootProperties[i].name).k = "arr") =>
           AllItemsKept(RootProperties[i].name, Member(loaded, RootProperties[i].name).a)

(***************************************************************************)
(* The workspace the builder works on                                      *)
(***************************************************************************)
\* what a workspace holds after the step
WorkspaceAfter(id) == IF id = 2 THEN Get(host'.second) ELSE graph'

\* the workspaces other than the one the builder refers to
Earlier == Workspaces \ {builder.workspace}

Ready == builder.workspace # 0 /\ gen.ok

Completed(op) == call'.op = op /\ call'.error = "none"

LoadedInto(id, config) ==
  WorkspaceAfter(id) =
    [load(Registered, WorkspaceOf(id), schema, config) EXCEPT !.warnings = <<>>]

\* C29: the builder refers to the workspace supplied last, at construction
\* or by setWorkspace; a loader exists exactly when there are a workspace
\* and a generation result, and it holds that workspace; with both,
\* loadConfig is not refused for want of either, and loadConfig,
\* clearWorkspace and generateConfig work on that workspace and leave the
\* other one as it was.
WorkspaceBinding ==
  [][/\ builder'.workspace =
          IF call'.op = "setWorkspace" THEN call'.workspace ELSE builder.workspace
     /\ (builder'.configLoader # 0) <=> (builder'.workspace # 0 /\ gen'.ok)
     /\ builder'.configLoader \in {0, builder'.workspace}
     /\ (Ready /\ call'.op = "loadConfig") => call'.error \notin BuilderRefused
     /\ (Ready /\ Completed("loadConfig")) =>
          /\ LoadedInto(builder.workspace, loaded')
          /\ \A id \in Earlier : WorkspaceAfter(id) = WorkspaceOf(id)
     /\ (Ready /\ Completed("clearWorkspace")) =>
          /\ WorkspaceAfter(builder.workspace) = EmptyWorkspace
          /\ \A id \in Earlier : WorkspaceAfter(id) = WorkspaceOf(id)
     /\ (Ready /\ Completed("generateConfig")) =>
          /\ extracted' = generateConfig(gen, call'.options, schema,
                                         WorkspaceOf(builder.workspace)).config
          /\ \A id \in Workspaces : WorkspaceAfter(id) = WorkspaceOf(id)]_vars

\* a configuration was loaded into the second workspace, supplied after
\* the first one had been loaded with another
WorkspaceBindingWitness ==
  /\ call.op = "loadConfig"
  /\ call.error = "none"
  /\ builder.workspace = 2
  /\ builder.configLoader = 2
  /\ Len(graph.blocks) >= 1
  /\ Len(Get(host.second).blocks) >= 1
  /\ Get(host.second).blocks # graph.blocks
====
